---- MODULE Spec2Model ----
(***************************************************************************)
(* Model of the response side of the protocol-translation gateway:         *)
(*   - the process-wide thought-signature slot (format/signature_store.rs) *)
(*   - the stream transducer transform_stream   (middleware/claude/       *)
(*     claude2oai.rs), with the helpers it calls (param_remapper.rs,       *)
(*     web_search.rs)                                                      *)
(*   - the non-stream transformer transforms_json (claude2oai.rs)          *)
(* Rust Strings are sequences of characters; Option<T> is a sequence of    *)
(* length 0 (None) or 1 (Some).                                            *)
(***************************************************************************)
EXTENDS Integers, Sequences, FiniteSets, TLC

VARIABLES
    GLOBAL_THOUGHT_SIG,   \* signature_store.rs:13  Mutex<Option<String>>
    mutex,                \* holder of the slot's Mutex: 0 when free, else a worker
    pc,                   \* worker -> position inside store_thought_signature
    sigArg,               \* worker -> the sig argument of its call in progress
    lastCall,             \* the signature-store call that has just returned
    maxStored,            \* greatest length of a non-empty sig passed to store
    stream,               \* the request's stream flag: which transformer handles the response
    tool_call_buffer,     \* claude2oai.rs:152  HashMap<usize, ToolCallState>
    tool_call_index,      \* claude2oai.rs:154  the tool-call emit counter
    web_search_buffer,    \* claude2oai.rs:157  HashMap<usize, WebSearchState>
    out,                  \* the frames the transducer has emitted, each with the
                          \* ordinal of the input event that produced it
    nEvents,              \* number of input events the transducer has received
    lastEvent,            \* the input event handled last
    eventLog,             \* the tool_use starts, input_json_deltas and stops received
    response,             \* the complete upstream response of a non-stream request
    result,               \* transforms_json's return value, once it has run
    fnArgs,               \* the arguments of the request-side function applied
    fnResult              \* the function applied and the value it returned

sigVars == <<GLOBAL_THOUGHT_SIG, mutex, pc, sigArg, lastCall, maxStored>>

streamVars == <<tool_call_buffer, tool_call_index, web_search_buffer, out, nEvents,
                lastEvent, eventLog>>

jsonVars == <<stream, response, result>>

fnVars == <<fnArgs, fnResult>>

vars == <<sigVars, streamVars, jsonVars, fnVars>>

-----------------------------------------------------------------------------
(* Bounds of the explored inputs *)

MaxSigLen == 3
NWorkers == 2
MaxEvents == 4
MaxBlocks == 2

SigAlphabet == {"a", "b"}

RECURSIVE StringsUpTo(_, _)
StringsUpTo(alphabet, n) ==
    IF n = 0 THEN {<<>>}
    ELSE LET shorter == StringsUpTo(alphabet, n - 1)
         IN shorter \cup {Append(s, c) : s \in shorter, c \in alphabet}

Sigs == StringsUpTo(SigAlphabet, MaxSigLen)

Workers == 1..NWorkers

-----------------------------------------------------------------------------
(* Option<T> *)

None == <<>>
Some(x) == <<x>>
IsSome(o) == Len(o) = 1
Unwrap(o) == o[1]

-----------------------------------------------------------------------------
(* format/signature_store.rs *)

\* Mutants of should_store: the length test dropped, and >= written for >.
should_store_always(guard, sig) == TRUE

should_store_or_equal(guard, sig) ==
    IF guard = None THEN TRUE ELSE Len(sig) >= Len(Unwrap(guard))

\* The match of store_thought_signature: None => true, Some(e) => sig.len() > e.len()
should_store(guard, sig) ==
    IF guard = None THEN TRUE ELSE Len(sig) > Len(Unwrap(guard))

\* The value of the slot after store_thought_signature(sig) has run alone.
store_result(guard, sig) ==
    IF sig = <<>> THEN guard
    ELSE IF should_store(guard, sig) THEN Some(sig)
    ELSE guard

IdleWorkers == [w \in Workers |-> "idle"]
NoArgs == [w \in Workers |-> <<>>]
NoCall == [op |-> "none", sig |-> <<>>, ret |-> None]

\* A map with no entry (HashMap::new(), an empty JSON object).
EmptyMap == [k \in {} |-> <<>>]

NoEvent == [type |-> "none"]

\* No response is being translated.
NoResponse ==
    /\ stream = FALSE
    /\ tool_call_buffer = EmptyMap
    /\ tool_call_index = 0
    /\ web_search_buffer = EmptyMap
    /\ out = <<>>
    /\ nEvents = 0
    /\ lastEvent = NoEvent
    /\ eventLog = <<>>
    /\ response = None
    /\ result = None
    /\ fnArgs = None
    /\ fnResult = None

SlotInit ==
    /\ GLOBAL_THOUGHT_SIG = None
    /\ mutex = 0
    /\ pc = IdleWorkers
    /\ sigArg = NoArgs
    /\ lastCall = NoCall
    /\ maxStored = 0

SigInit == SlotInit /\ NoResponse

\* One whole call, made while no other call is in progress.
store_thought_signature(sig) ==
    /\ mutex = 0
    /\ GLOBAL_THOUGHT_SIG' = store_result(GLOBAL_THOUGHT_SIG, sig)
    /\ lastCall' = [op |-> "store", sig |-> sig, ret |-> None]
    /\ UNCHANGED <<mutex, pc, sigArg, maxStored, streamVars, jsonVars, fnVars>>

get_thought_signature ==
    /\ mutex = 0
    /\ lastCall' = [op |-> "get", sig |-> <<>>, ret |-> GLOBAL_THOUGHT_SIG]
    /\ UNCHANGED <<GLOBAL_THOUGHT_SIG, mutex, pc, sigArg, maxStored, streamVars, jsonVars, fnVars>>

clear_thought_signature ==
    /\ mutex = 0
    /\ GLOBAL_THOUGHT_SIG' = None
    /\ lastCall' = [op |-> "clear", sig |-> <<>>, ret |-> None]
    /\ UNCHANGED <<mutex, pc, sigArg, maxStored, streamVars, jsonVars, fnVars>>

StoreCall == \E sig \in Sigs : store_thought_signature(sig)

SigNext ==
    \/ StoreCall
    \/ get_thought_signature
    \/ clear_thought_signature

\* Any sequence of store / get / clear calls.
SigSpec == SigInit /\ [][SigNext]_vars

-----------------------------------------------------------------------------
(* store_thought_signature called by several request / stream workers.     *)
(* Each call is followed statement by statement: the early return on an    *)
(* empty sig, lock(), the match, the write, the drop of the guard.         *)

\* The signatures the workers store: lengths 0..MaxSigLen.
WorkerSigs == StringsUpTo({"a"}, MaxSigLen)

Max(a, b) == IF a >= b THEN a ELSE b

\* Mutant of lock_free: the write is made without waiting for the Mutex.
lock_not_awaited == TRUE

\* Mutex::lock() returns only when no other guard is alive.
lock_free == mutex = 0

StoreEnter(w) ==
    /\ pc[w] = "idle"
    /\ \E sig \in WorkerSigs :
         /\ maxStored' = Max(maxStored, Len(sig))
         /\ IF sig = <<>>
            THEN UNCHANGED <<pc, sigArg>>
            ELSE /\ pc' = [pc EXCEPT ![w] = "lock"]
                 /\ sigArg' = [sigArg EXCEPT ![w] = sig]
    /\ UNCHANGED <<GLOBAL_THOUGHT_SIG, mutex, lastCall, streamVars, jsonVars, fnVars>>

StoreLock(w) ==
    /\ pc[w] = "lock"
    /\ lock_free
    /\ mutex' = w
    /\ pc' = [pc EXCEPT ![w] = "match"]
    /\ UNCHANGED <<GLOBAL_THOUGHT_SIG, sigArg, lastCall, maxStored, streamVars, jsonVars, fnVars>>

StoreMatch(w) ==
    /\ pc[w] = "match"
    /\ pc' = [pc EXCEPT ![w] =
                IF should_store(GLOBAL_THOUGHT_SIG, sigArg[w]) THEN "write" ELSE "drop"]
    /\ UNCHANGED <<GLOBAL_THOUGHT_SIG, mutex, sigArg, lastCall, maxStored, streamVars, jsonVars, fnVars>>

StoreWrite(w) ==
    /\ pc[w] = "write"
    /\ GLOBAL_THOUGHT_SIG' = Some(sigArg[w])
    /\ pc' = [pc EXCEPT ![w] = "drop"]
    /\ UNCHANGED <<mutex, sigArg, lastCall, maxStored, streamVars, jsonVars, fnVars>>

StoreDrop(w) ==
    /\ pc[w] = "drop"
    /\ mutex' = 0
    /\ pc' = [pc EXCEPT ![w] = "idle"]
    /\ sigArg' = [sigArg EXCEPT ![w] = <<>>]
    /\ UNCHANGED <<GLOBAL_THOUGHT_SIG, lastCall, maxStored, streamVars, jsonVars, fnVars>>

Enter == \E w \in Workers : StoreEnter(w)
Lock == \E w \in Workers : StoreLock(w)
Match == \E w \in Workers : StoreMatch(w)
Write == \E w \in Workers : StoreWrite(w)
Drop == \E w \in Workers : StoreDrop(w)

WorkersNext ==
    \/ Enter
    \/ Lock
    \/ Match
    \/ Write
    \/ Drop

\* Concurrent stores, no clear.
WorkersSpec == SigInit /\ [][WorkersNext]_vars

-----------------------------------------------------------------------------
(* JSON text and values.  A JSON text is a String whose characters are     *)
(* taken token by token: "{", "}", "," and one token per member            *)
(* "key":"value".  A Value is an object: a map from keys to string values. *)

LBRACE == <<"{">>
RBRACE == <<"}">>
COMMA == <<",">>
Member(k, v) == <<k, v>>
IsMember(tok) == Len(tok) = 2

JObject(m) == [kind |-> "object", map |-> m]
JNull == [kind |-> "null"]
JString(str) == [kind |-> "string", str |-> str]

\* Map::remove and Map::insert of serde_json.
MapRemove(m, k) == [x \in (DOMAIN m) \ {k} |-> m[x]]
MapInsert(m, k, v) == [x \in (DOMAIN m) \cup {k} |-> IF x = k THEN v ELSE m[x]]

ObjectBody(text) == SubSeq(text, 2, Len(text) - 1)

\* The texts serde_json accepts: {} or {member(,member)*}, nothing before or after.
IsObjectText(text) ==
    /\ Len(text) >= 2
    /\ text[1] = LBRACE
    /\ text[Len(text)] = RBRACE
    /\ LET body == ObjectBody(text)
       IN \/ body = <<>>
          \/ /\ Len(body) % 2 = 1
             /\ \A i \in 1..Len(body) :
                  IF i % 2 = 1 THEN IsMember(body[i]) ELSE body[i] = COMMA

\* serde_json::from_str::<Value>(text).ok(): a repeated key keeps its last value.
from_str(text) ==
    IF IsObjectText(text)
    THEN LET body == ObjectBody(text)
             at == {i \in 1..Len(body) : i % 2 = 1}
             keys == {body[i][1] : i \in at}
             last(k) == CHOOSE i \in at :
                           /\ body[i][1] = k
                           /\ \A j \in at : body[j][1] = k => j <= i
         IN Some(JObject([k \in keys |-> body[last(k)][2]]))
    ELSE None

\* The keys of the model in the order serde_json's Map writes them.
KeyOrder == <<"directory", "file_path", "path", "pattern", "q", "query">>

RECURSIVE JoinTokens(_)
JoinTokens(members) ==
    IF members = <<>> THEN <<>>
    ELSE IF Len(members) = 1 THEN members
    ELSE <<Head(members), COMMA>> \o JoinTokens(Tail(members))

\* serde_json::to_string(&value)
to_string(value) ==
    LET present(k) == k \in DOMAIN value.map
        keys == SelectSeq(KeyOrder, present)
        members == [i \in 1..Len(keys) |-> Member(keys[i], value.map[keys[i]])]
    IN <<LBRACE>> \o JoinTokens(members) \o <<RBRACE>>

-----------------------------------------------------------------------------
(* format/param_remapper.rs *)

\* if let Some(x) = obj.remove(from) { if !obj.contains_key(to) { obj.insert(to, x) } }
remove_then_insert(obj, from, to) ==
    IF from \in DOMAIN obj
    THEN LET removed == MapRemove(obj, from)
         IN IF to \notin DOMAIN removed
            THEN MapInsert(removed, to, obj[from])
            ELSE removed
    ELSE obj

\* Mutant of remap_function_call_args: Grep's pattern is renamed back to query.
remap_function_call_args_toggling(tool_name, args) ==
    IF args.kind # "object" THEN args
    ELSE CASE tool_name = "Grep" ->
                IF "query" \in DOMAIN args.map
                THEN JObject(remove_then_insert(args.map, "query", "pattern"))
                ELSE JObject(remove_then_insert(args.map, "pattern", "query"))
           [] tool_name = "Glob" -> JObject(remove_then_insert(args.map, "query", "pattern"))
           [] tool_name \in {"Read", "Write", "Edit"} ->
                JObject(remove_then_insert(args.map, "path", "file_path"))
           [] tool_name \in {"ListDir", "LS"} ->
                JObject(remove_then_insert(args.map, "path", "directory"))
           [] OTHER -> args

remap_function_call_args(tool_name, args) ==
    IF args.kind # "object" THEN args
    ELSE CASE tool_name = "Grep" -> JObject(remove_then_insert(args.map, "query", "pattern"))
           [] tool_name = "Glob" -> JObject(remove_then_insert(args.map, "query", "pattern"))
           [] tool_name = "Read" -> JObject(remove_then_insert(args.map, "path", "file_path"))
           [] tool_name = "Write" -> JObject(remove_then_insert(args.map, "path", "file_path"))
           [] tool_name = "Edit" -> JObject(remove_then_insert(args.map, "path", "file_path"))
           [] tool_name \in {"ListDir", "LS"} ->
                JObject(remove_then_insert(args.map, "path", "directory"))
           [] OTHER -> args

-----------------------------------------------------------------------------
(* format/web_search.rs.  The raw data of a block is a record of the       *)
(* fields the code reads, each an Option: content and results are arrays   *)
(* of items, an item's fields are strings.                                 *)

Str(a) == <<a>>

Citation(url, title, snippet) ==
    [url |-> url, title |-> title, snippet |-> snippet,
     start_index |-> None, end_index |-> None]

OrElse(a, b) == IF IsSome(a) THEN a ELSE b
StrOrEmpty(o) == IF IsSome(o) THEN Str(Unwrap(o)) ELSE <<>>
ArrayOrEmpty(o) == IF IsSome(o) THEN Unwrap(o) ELSE <<>>

RECURSIVE Flatten(_)
Flatten(seqs) == IF seqs = <<>> THEN <<>> ELSE Head(seqs) \o Flatten(Tail(seqs))

extract_citations_from_tool_result(data) ==
    LET content == ArrayOrEmpty(data.content)
        results == ArrayOrEmpty(data.results)
        fromContent(item) ==
            IF /\ item.type = Some("web_search_result")
               /\ IsSome(item.url)
               /\ IsSome(item.title)
            THEN <<Citation(Unwrap(item.url), Unwrap(item.title),
                            StrOrEmpty(OrElse(item.snippet, item.encrypted_content)))>>
            ELSE <<>>
        fromResult(item) ==
            IF IsSome(item.url) /\ IsSome(item.title)
            THEN <<Citation(Unwrap(item.url), Unwrap(item.title), StrOrEmpty(item.snippet))>>
            ELSE <<>>
    IN Flatten([i \in 1..Len(content) |-> fromContent(content[i])])
         \o Flatten([i \in 1..Len(results) |-> fromResult(results[i])])

RECURSIVE JoinWith(_, _)
JoinWith(strs, sep) ==
    IF strs = <<>> THEN <<>>
    ELSE IF Len(strs) = 1 THEN Head(strs)
    ELSE Head(strs) \o <<sep>> \o JoinWith(Tail(strs), sep)

extract_citations_from_search_result(data) ==
    IF /\ IsSome(data.source)
       /\ IsSome(Unwrap(data.source).url)
       /\ IsSome(Unwrap(data.source).title)
    THEN LET items == ArrayOrEmpty(data.content)
             texts == Flatten([i \in 1..Len(items) |->
                                 IF IsSome(items[i].text)
                                 THEN <<Str(Unwrap(items[i].text))>> ELSE <<>>])
         IN <<Citation(Unwrap(Unwrap(data.source).url), Unwrap(Unwrap(data.source).title),
                       JoinWith(texts, "\n"))>>
    ELSE <<>>

UnwrapOr(o, d) == IF IsSome(o) THEN Unwrap(o) ELSE d

citations_to_annotations(citations) ==
    [i \in 1..Len(citations) |->
        [type |-> "url_citation",
         url_citation |-> [url |-> citations[i].url,
                           title |-> citations[i].title,
                           content |-> citations[i].snippet,
                           start_index |-> UnwrapOr(citations[i].start_index, 0),
                           end_index |-> UnwrapOr(citations[i].end_index, 0)]]]

SnippetLimit == 200

\* The two headings are written in ASCII here; every other piece is the code's.
format_citations_as_markdown(citations, search_query) ==
    IF citations = <<>> THEN <<>>
    ELSE LET header == IF IsSome(search_query)
                       THEN <<"**searched:** ", Unwrap(search_query), "\n\n">>
                       ELSE <<>>
             cut(snippet) == IF Len(snippet) > SnippetLimit
                             THEN SubSeq(snippet, 1, SnippetLimit) \o <<"...">>
                             ELSE snippet
             spaced(snippet) == [i \in 1..Len(snippet) |->
                                   IF snippet[i] = "\n" THEN " " ELSE snippet[i]]
             item(i) ==
                 <<ToString(i), ". [", citations[i].title, "](", citations[i].url, ")\n">>
                   \o (IF citations[i].snippet # <<>>
                       THEN <<"   > ">> \o spaced(cut(citations[i].snippet)) \o <<"\n">>
                       ELSE <<>>)
         IN <<"\n\n---\n">> \o header \o <<"**sources:**\n">>
              \o Flatten([i \in 1..Len(citations) |-> item(i)])

merge_citations_into_text(text, citations, search_query) ==
    IF citations = <<>> THEN text
    ELSE text \o format_citations_as_markdown(citations, search_query)

-----------------------------------------------------------------------------
(* The upstream inputs explored *)

BlockIndexes == {0, 1}

\* tool_use blocks as content_block_start carries them (input is not read).
ToolBlocks ==
    {[id |-> "toolu_1", name |-> "Grep"],
     [id |-> "toolu_2", name |-> "web_search"]}

\* partial_json fragments:  {"query":"v","q":"w"   and   }
FragOpen == <<LBRACE, Member("query", "v"), COMMA, Member("q", "w")>>
FragClose == <<RBRACE>>
Fragments == {FragOpen, FragClose}

Item(type, url, title, snippet, encrypted) ==
    [type |-> type, url |-> url, title |-> title, snippet |-> snippet,
     encrypted_content |-> encrypted]

\* A web_search_tool_result with one usable content item (snippet taken from
\* encrypted_content), one item without title, one item of another type, and
\* one entry under results.
WsTwo ==
    [tool_use_id |-> Some("srvtoolu_1"),
     content |-> Some(<<Item(Some("web_search_result"), Some("u1"), Some("t1"),
                             None, Some("e1")),
                        Item(Some("web_search_result"), Some("u9"), None,
                             Some("s9"), None),
                        Item(Some("other"), Some("u8"), Some("t8"), Some("s8"), None)>>),
     results |-> Some(<<Item(None, Some("u2"), Some("t2"), Some("s2"), None)>>)]

\* A web_search_tool_result whose content is an error object, not an array.
WsNone == [tool_use_id |-> None, content |-> None, results |-> None]

WebSearchData == {WsTwo, WsNone}

SrOne ==
    [source |-> Some([url |-> Some("u3"), title |-> Some("t3")]),
     content |-> Some(<<[text |-> Some("x")], [text |-> None], [text |-> Some("y")]>>)]

SearchResultData == {SrOne}

\* The index given to the events whose handler does not read it.
UnreadIndexes == {0}

StreamTexts == {<<>>, <<"a">>}
ThinkingTexts == {<<"t">>}
StreamSigs == {<<"a">>, <<"a", "b">>}

\* The event types StreamEvent deserializes, other than the content_block ones.
OtherEventTypes == {"message_start", "message_delta", "message_stop", "ping", "error"}

StreamEventTypes ==
    {"content_block_start", "content_block_delta", "content_block_stop"}
        \cup OtherEventTypes

\* Frames that are no StreamEvent: not JSON at all, or JSON of an unknown type.
MalformedFrames == {[type |-> "not_json"], [type |-> "unknown_event"]}

-----------------------------------------------------------------------------
(* middleware/claude/claude2oai.rs: transform_stream *)

\* serde_json::from_str::<StreamEvent>(&data).ok()
parse_event(data) == IF data.type \in StreamEventTypes THEN Some(data) ELSE None

ToolCallState(id, name, arguments) == [id |-> id, name |-> name, arguments |-> arguments]
WebSearchState(citations, tool_use_id) ==
    [citations |-> citations, tool_use_id |-> tool_use_id]

\* build_event(EventContent::...): the delta of the frame, with the ordinal of
\* the input event in whose handler it is built.
Frame(delta) == [seq |-> nEvents + 1, delta |-> delta]

UnwrapOrElse(o, d) == IF IsSome(o) THEN Unwrap(o) ELSE d

\* Mutant of build_tool_call_event: every frame is numbered as the first one.
build_tool_call_event_unnumbered(state, index) ==
    LET args_value == UnwrapOrElse(from_str(state.arguments), JObject(EmptyMap))
        remapped_args == to_string(remap_function_call_args(state.name, args_value))
    IN Frame([tool_calls |->
                <<[index |-> 0,
                   id |-> state.id,
                   type |-> "function",
                   function |-> [name |-> state.name, arguments |-> remapped_args]]>>])

build_tool_call_event(state, index) ==
    LET args_value == UnwrapOrElse(from_str(state.arguments), JObject(EmptyMap))
        remapped_args == to_string(remap_function_call_args(state.name, args_value))
    IN Frame([tool_calls |->
                <<[index |-> index,
                   id |-> state.id,
                   type |-> "function",
                   function |-> [name |-> state.name, arguments |-> remapped_args]]>>])

\* Mutant of build_annotations_event: only the first citation is announced.
build_annotations_event_first_only(citations) ==
    Frame([annotations |-> citations_to_annotations(SubSeq(citations, 1, 1))])

build_annotations_event(citations) ==
    Frame([annotations |-> citations_to_annotations(citations)])

\* What every handler does with the bookkeeping of the model.
Received(event, logged) ==
    /\ stream
    /\ nEvents < MaxEvents
    /\ nEvents' = nEvents + 1
    /\ lastEvent' = event
    /\ eventLog' = IF logged THEN Append(eventLog, event) ELSE eventLog
    /\ UNCHANGED <<mutex, pc, sigArg, lastCall, maxStored, jsonVars, fnVars>>

StartEvent(index, block) ==
    [type |-> "content_block_start", index |-> index, content_block |-> block]
DeltaEvent(index, delta) ==
    [type |-> "content_block_delta", index |-> index, delta |-> delta]
StopEvent(index) == [type |-> "content_block_stop", index |-> index]

ToolUseStart(index, block) ==
    /\ Received(StartEvent(index, [type |-> "tool_use"] @@ block), TRUE)
    /\ tool_call_buffer' =
         MapInsert(tool_call_buffer, index, ToolCallState(block.id, block.name, <<>>))
    /\ UNCHANGED <<GLOBAL_THOUGHT_SIG, tool_call_index, web_search_buffer, out>>

WebSearchToolResultStart(index, data) ==
    /\ Received(StartEvent(index, [type |-> "web_search_tool_result", data |-> data]), FALSE)
    /\ web_search_buffer' =
         MapInsert(web_search_buffer, index,
                   WebSearchState(extract_citations_from_tool_result(data),
                                  UnwrapOr(data.tool_use_id, "")))
    /\ UNCHANGED <<GLOBAL_THOUGHT_SIG, tool_call_buffer, tool_call_index, out>>

SearchResultStart(index, data) ==
    /\ Received(StartEvent(index, [type |-> "search_result", data |-> data]), FALSE)
    /\ web_search_buffer' =
         MapInsert(web_search_buffer, index,
                   WebSearchState(extract_citations_from_search_result(data), ""))
    /\ UNCHANGED <<GLOBAL_THOUGHT_SIG, tool_call_buffer, tool_call_index, out>>

\* A text, thinking, image, ... block: the _ => {} arm.
OtherBlockStart(index) ==
    /\ Received(StartEvent(index, [type |-> "text", text |-> <<>>]), FALSE)
    /\ UNCHANGED <<GLOBAL_THOUGHT_SIG, tool_call_buffer, tool_call_index,
                   web_search_buffer, out>>

\* Mutant of TextDelta: an empty text emits no frame.
TextDeltaSkipsEmpty(index, text) ==
    /\ Received(DeltaEvent(index, [type |-> "text_delta", text |-> text]), FALSE)
    /\ out' = IF text = <<>> THEN out ELSE Append(out, Frame([content |-> text]))
    /\ UNCHANGED <<GLOBAL_THOUGHT_SIG, tool_call_buffer, tool_call_index, web_search_buffer>>

TextDelta(index, text) ==
    /\ Received(DeltaEvent(index, [type |-> "text_delta", text |-> text]), FALSE)
    /\ out' = Append(out, Frame([content |-> text]))
    /\ UNCHANGED <<GLOBAL_THOUGHT_SIG, tool_call_buffer, tool_call_index, web_search_buffer>>

ThinkingDelta(index, thinking) ==
    /\ Received(DeltaEvent(index, [type |-> "thinking_delta", thinking |-> thinking]), FALSE)
    /\ out' = Append(out, Frame([reasoning_content |-> thinking]))
    /\ UNCHANGED <<GLOBAL_THOUGHT_SIG, tool_call_buffer, tool_call_index, web_search_buffer>>

\* Mutant of InputJsonDelta: the fragment is appended to every open block.
InputJsonDeltaToEveryBlock(index, partial_json) ==
    /\ Received(DeltaEvent(index, [type |-> "input_json_delta",
                                   partial_json |-> partial_json]), TRUE)
    /\ tool_call_buffer' =
         [i \in DOMAIN tool_call_buffer |->
            [tool_call_buffer[i] EXCEPT !.arguments = @ \o partial_json]]
    /\ UNCHANGED <<GLOBAL_THOUGHT_SIG, tool_call_index, web_search_buffer, out>>

\* Mutant of InputJsonDelta: a fragment for an index with no open block opens one.
InputJsonDeltaOpeningEntry(index, partial_json) ==
    /\ Received(DeltaEvent(index, [type |-> "input_json_delta",
                                   partial_json |-> partial_json]), TRUE)
    /\ tool_call_buffer' =
         IF index \in DOMAIN tool_call_buffer
         THEN [tool_call_buffer EXCEPT ![index].arguments = @ \o partial_json]
         ELSE MapInsert(tool_call_buffer, index, ToolCallState("", "", partial_json))
    /\ UNCHANGED <<GLOBAL_THOUGHT_SIG, tool_call_index, web_search_buffer, out>>

InputJsonDelta(index, partial_json) ==
    /\ Received(DeltaEvent(index, [type |-> "input_json_delta",
                                   partial_json |-> partial_json]), TRUE)
    /\ tool_call_buffer' =
         IF index \in DOMAIN tool_call_buffer
         THEN [tool_call_buffer EXCEPT ![index].arguments = @ \o partial_json]
         ELSE tool_call_buffer
    /\ UNCHANGED <<GLOBAL_THOUGHT_SIG, tool_call_index, web_search_buffer, out>>

SignatureDelta(index, signature) ==
    /\ Received(DeltaEvent(index, [type |-> "signature_delta",
                                   signature |-> signature]), FALSE)
    /\ GLOBAL_THOUGHT_SIG' = store_result(GLOBAL_THOUGHT_SIG, signature)
    /\ UNCHANGED <<tool_call_buffer, tool_call_index, web_search_buffer, out>>

\* Mutant of ContentBlockStop: the web-search entry is read and left in the buffer.
ContentBlockStopKeepingWebSearch(index) ==
    /\ Received(StopEvent(index), TRUE)
    /\ IF index \in DOMAIN tool_call_buffer
       THEN /\ tool_call_buffer' = MapRemove(tool_call_buffer, index)
            /\ tool_call_index' = tool_call_index + 1
            /\ out' = Append(out, build_tool_call_event(tool_call_buffer[index],
                                                        tool_call_index))
            /\ UNCHANGED web_search_buffer
       ELSE IF index \in DOMAIN web_search_buffer
       THEN /\ out' = IF web_search_buffer[index].citations # <<>>
                      THEN Append(out, build_annotations_event(
                                          web_search_buffer[index].citations))
                      ELSE out
            /\ UNCHANGED <<tool_call_buffer, tool_call_index, web_search_buffer>>
       ELSE UNCHANGED <<tool_call_buffer, tool_call_index, web_search_buffer, out>>
    /\ UNCHANGED GLOBAL_THOUGHT_SIG

ContentBlockStop(index) ==
    /\ Received(StopEvent(index), TRUE)
    /\ IF index \in DOMAIN tool_call_buffer
       THEN /\ tool_call_buffer' = MapRemove(tool_call_buffer, index)
            /\ tool_call_index' = tool_call_index + 1
            /\ out' = Append(out, build_tool_call_event(tool_call_buffer[index],
                                                        tool_call_index))
            /\ UNCHANGED web_search_buffer
       ELSE IF index \in DOMAIN web_search_buffer
       THEN /\ web_search_buffer' = MapRemove(web_search_buffer, index)
            /\ out' = IF web_search_buffer[index].citations # <<>>
                      THEN Append(out, build_annotations_event(
                                          web_search_buffer[index].citations))
                      ELSE out
            /\ UNCHANGED <<tool_call_buffer, tool_call_index>>
       ELSE UNCHANGED <<tool_call_buffer, tool_call_index, web_search_buffer, out>>
    /\ UNCHANGED GLOBAL_THOUGHT_SIG

\* Mutant of OtherEvent: message_stop drops the blocks still open.
OtherEventClosesBlocks(type) ==
    /\ IsSome(parse_event([type |-> type]))
    /\ Received([type |-> type], FALSE)
    /\ tool_call_buffer' = IF type = "message_stop" THEN EmptyMap ELSE tool_call_buffer
    /\ UNCHANGED <<GLOBAL_THOUGHT_SIG, tool_call_index, web_search_buffer, out>>

\* message_start, message_delta, message_stop, ping, error: the _ => Ok(None) arm.
OtherEvent(type) ==
    /\ IsSome(parse_event([type |-> type]))
    /\ Received([type |-> type], FALSE)
    /\ UNCHANGED <<GLOBAL_THOUGHT_SIG, tool_call_buffer, tool_call_index,
                   web_search_buffer, out>>

\* let Ok(parsed) = ... else { return Ok(None) }
UnparsedFrame(data) ==
    /\ parse_event(data) = None
    /\ Received(data, FALSE)
    /\ UNCHANGED <<GLOBAL_THOUGHT_SIG, tool_call_buffer, tool_call_index,
                   web_search_buffer, out>>

OnToolUseStart == \E i \in BlockIndexes, b \in ToolBlocks : ToolUseStart(i, b)
OnWebSearchToolResultStart ==
    \E i \in BlockIndexes, d \in WebSearchData : WebSearchToolResultStart(i, d)
OnSearchResultStart ==
    \E i \in BlockIndexes, d \in SearchResultData : SearchResultStart(i, d)
OnOtherBlockStart == \E i \in UnreadIndexes : OtherBlockStart(i)
OnTextDelta == \E i \in UnreadIndexes, t \in StreamTexts : TextDelta(i, t)
OnThinkingDelta == \E i \in UnreadIndexes, t \in ThinkingTexts : ThinkingDelta(i, t)
OnInputJsonDelta == \E i \in BlockIndexes, f \in Fragments : InputJsonDelta(i, f)
OnSignatureDelta == \E i \in UnreadIndexes, g \in StreamSigs : SignatureDelta(i, g)
OnContentBlockStop == \E i \in BlockIndexes : ContentBlockStop(i)
OnOtherEvent == \E t \in OtherEventTypes : OtherEvent(t)
OnUnparsedFrame == \E d \in MalformedFrames : UnparsedFrame(d)

StreamNext ==
    \/ OnToolUseStart
    \/ OnWebSearchToolResultStart
    \/ OnSearchResultStart
    \/ OnOtherBlockStart
    \/ OnTextDelta
    \/ OnThinkingDelta
    \/ OnInputJsonDelta
    \/ OnSignatureDelta
    \/ OnContentBlockStop
    \/ OnOtherEvent
    \/ OnUnparsedFrame

StreamInit ==
    /\ SlotInit
    /\ stream = TRUE
    /\ tool_call_buffer = EmptyMap
    /\ tool_call_index = 0
    /\ web_search_buffer = EmptyMap
    /\ out = <<>>
    /\ nEvents = 0
    /\ lastEvent = NoEvent
    /\ eventLog = <<>>
    /\ response = None
    /\ result = None
    /\ fnArgs = None
    /\ fnResult = None

StreamSpec == StreamInit /\ [][StreamNext]_vars

-----------------------------------------------------------------------------
(* middleware/claude/claude2oai.rs: transforms_json.  The input is a       *)
(* CreateMessageResponse; the fields the function reads are modelled.      *)

TextBlock(text) == [type |-> "text", text |-> text]
ToolUseBlock(id, name, input, signature) ==
    [type |-> "tool_use", id |-> id, name |-> name, input |-> input,
     signature |-> signature]
ThinkingBlock(thinking, signature) ==
    [type |-> "thinking", thinking |-> thinking, signature |-> signature]
WebSearchToolResultBlock(data) == [type |-> "web_search_tool_result", data |-> data]
SearchResultBlock(data) == [type |-> "search_result", data |-> data]
\* RedactedThinking { data: String }: a block of the _ => {} arm; its payload is not read.
RedactedThinkingBlock == [type |-> "redacted_thinking", redacted |-> "r"]

ContentBlocks ==
    {TextBlock(<<>>), TextBlock(<<"a">>),
     ToolUseBlock("toolu_1", "Grep", JObject([k \in {"query"} |-> "v"]), None),
     ToolUseBlock("toolu_2", "web_search", JObject([k \in {"q"} |-> "w"]),
                  Some(<<"a", "b">>)),
     ThinkingBlock(<<"t">>, Some(<<"a">>)), ThinkingBlock(<<"t">>, None),
     WebSearchToolResultBlock(WsTwo), WebSearchToolResultBlock(WsNone),
     SearchResultBlock(SrOne),
     RedactedThinkingBlock}

RECURSIVE SeqsUpTo(_, _)
SeqsUpTo(S, n) ==
    IF n = 0 THEN {<<>>}
    ELSE LET shorter == SeqsUpTo(S, n - 1)
         IN shorter \cup {Append(q, x) : q \in shorter, x \in S}

StopReasons == {"end_turn", "max_tokens", "stop_sequence", "tool_use", "refusal"}

\* Token counts of a response are far below 2^32: their u32 sum does not wrap.
Usages == {None, Some([input_tokens |-> 1, output_tokens |-> 2])}

Responses ==
    [content : SeqsUpTo(ContentBlocks, MaxBlocks),
     id : {"msg_1"},
     model : {"m"},
     stop_reason : {None} \cup {Some(r) : r \in StopReasons},
     usage : Usages]

\* The store_thought_signature calls of the loop over the blocks, in order.
RECURSIVE store_signatures(_, _)
store_signatures(guard, blocks) ==
    IF blocks = <<>> THEN guard
    ELSE LET block == Head(blocks)
             stored == IF /\ block.type \in {"tool_use", "thinking"}
                          /\ IsSome(block.signature)
                       THEN store_result(guard, Unwrap(block.signature))
                       ELSE guard
         IN store_signatures(stored, Tail(blocks))

\* Mutant of finish_reason: a refusal is reported as a plain stop.
finish_reason_refusal_as_stop(stop_reason) ==
    IF stop_reason = Some("max_tokens") THEN "length"
    ELSE IF stop_reason = Some("tool_use") THEN "tool_calls"
    ELSE "stop"

finish_reason(stop_reason) ==
    CASE stop_reason = Some("end_turn") -> "stop"
      [] stop_reason = Some("max_tokens") -> "length"
      [] stop_reason = Some("stop_sequence") -> "stop"
      [] stop_reason = Some("tool_use") -> "tool_calls"
      [] stop_reason = Some("refusal") -> "content_filter"
      [] stop_reason = None -> "stop"

\* Mutant of message_content: null whenever the text parts are empty and
\* there are tool calls, whatever the citations add.
message_content_ignoring_citations(content, content_parts, tool_calls) ==
    IF Flatten(content_parts) = <<>> /\ tool_calls # <<>> THEN JNull ELSE JString(content)

\* message["content"]: null if empty and has tool calls
message_content(content, content_parts, tool_calls) ==
    IF content = <<>> /\ tool_calls # <<>> THEN JNull ELSE JString(content)

usage_json(usage) ==
    IF IsSome(usage)
    THEN LET u == Unwrap(usage)
         IN [prompt_tokens |-> u.input_tokens,
             completion_tokens |-> u.output_tokens,
             total_tokens |-> u.input_tokens + u.output_tokens]
    ELSE JNull

\* The returned Value, without "created" (the wall clock at the call).
transforms_json(input) ==
    LET blocks == input.content
        each(pick(_)) == Flatten([i \in 1..Len(blocks) |-> pick(blocks[i])])
        text_of(block) == IF block.type = "text" THEN <<block.text>> ELSE <<>>
        call_of(block) ==
            IF block.type = "tool_use"
            THEN <<[id |-> block.id,
                    type |-> "function",
                    function |->
                      [name |-> block.name,
                       arguments |->
                         to_string(remap_function_call_args(block.name, block.input))]]>>
            ELSE <<>>
        citations_of(block) ==
            IF block.type = "web_search_tool_result"
            THEN extract_citations_from_tool_result(block.data)
            ELSE IF block.type = "search_result"
            THEN extract_citations_from_search_result(block.data)
            ELSE <<>>
        content_parts == each(text_of)
        tool_calls == each(call_of)
        all_citations == each(citations_of)
        content == IF all_citations = <<>>
                   THEN Flatten(content_parts)
                   ELSE merge_citations_into_text(Flatten(content_parts), all_citations, None)
        message ==
            [role |-> "assistant",
             content |-> message_content(content, content_parts, tool_calls)]
              @@ (IF tool_calls # <<>> THEN [tool_calls |-> tool_calls] ELSE EmptyMap)
              @@ (IF all_citations # <<>>
                  THEN [annotations |-> citations_to_annotations(all_citations)]
                  ELSE EmptyMap)
    IN [id |-> input.id,
        object |-> "chat.completion",
        model |-> input.model,
        choices |-> <<[index |-> 0,
                       message |-> message,
                       finish_reason |-> finish_reason(input.stop_reason)]>>,
        usage |-> usage_json(input.usage)]

\* The non-stream response handler: one call of transforms_json.
TransformsJson ==
    /\ ~stream
    /\ IsSome(response)
    /\ result = None
    /\ result' = Some(transforms_json(Unwrap(response)))
    /\ GLOBAL_THOUGHT_SIG' = store_signatures(GLOBAL_THOUGHT_SIG, Unwrap(response).content)
    /\ UNCHANGED <<mutex, pc, sigArg, lastCall, maxStored, streamVars, stream, response, fnVars>>

JsonInit ==
    /\ SlotInit
    /\ stream = FALSE
    /\ tool_call_buffer = EmptyMap
    /\ tool_call_index = 0
    /\ web_search_buffer = EmptyMap
    /\ out = <<>>
    /\ nEvents = 0
    /\ lastEvent = NoEvent
    /\ eventLog = <<>>
    /\ response \in {Some(r) : r \in Responses}
    /\ result = None
    /\ fnArgs = None
    /\ fnResult = None

JsonNext == TransformsJson

JsonSpec == JsonInit /\ [][JsonNext]_vars

\* A response is converted by transform_stream when the request asked for a
\* stream and by transforms_json otherwise.
Init == StreamInit \/ JsonInit

Next == StreamNext \/ TransformsJson

Spec == Init /\ [][Next]_vars

-----------------------------------------------------------------------------
(* format/param_remapper.rs on the request side, and the three places a    *)
(* tool call's arguments are remapped: types/oai.rs convert_oai_message    *)
(* (request), transforms_json and build_tool_call_event (responses).       *)

\* Mutant of remap_oai_to_claude_args: q is copied to query and kept.
remap_oai_to_claude_args_keeping_q(tool_name, args) ==
    IF args.kind # "object" THEN args
    ELSE IF tool_name = "web_search" /\ "q" \in DOMAIN args.map
                                     /\ "query" \notin DOMAIN args.map
    THEN JObject(MapInsert(args.map, "query", args.map["q"]))
    ELSE args

remap_oai_to_claude_args(tool_name, args) ==
    IF args.kind # "object" THEN args
    ELSE CASE tool_name \in {"Grep", "Glob"} -> args
           [] tool_name \in {"Read", "Write", "Edit"} -> args
           [] tool_name = "web_search" ->
                IF "q" \in DOMAIN args.map /\ "query" \notin DOMAIN args.map
                THEN JObject(MapRemove(MapInsert(args.map, "query", args.map["q"]), "q"))
                ELSE args
           [] OTHER -> args

\* convert_oai_message, the loop body over the tool_calls of an assistant
\* message: one tool_use block per call.
convert_tool_call(tc) ==
    LET input == UnwrapOrElse(from_str(tc.function.arguments), JObject(EmptyMap))
    IN ToolUseBlock(tc.id, tc.function.name,
                    remap_oai_to_claude_args(tc.function.name, input), None)

MaxKeys == 2

RemapTools ==
    {"Grep", "Glob", "Read", "Write", "Edit", "ListDir", "LS", "web_search", "Bash"}

ArgKeys == {KeyOrder[i] : i \in 1..Len(KeyOrder)}
ArgValues == {"v", "w"}

\* The argument objects of at most MaxKeys keys, and two values that are no
\* object.
ArgObjects ==
    UNION {[ks -> ArgValues] : ks \in {s \in SUBSET ArgKeys : Cardinality(s) <= MaxKeys}}
JsonValues == {JObject(m) : m \in ArgObjects} \cup {JNull, JString(<<"v">>)}

RemapCalls == [name : RemapTools, args : JsonValues]

Returned(fn, value) == Some([fn |-> fn, value |-> value])

\* Each action applies one function to the tool call drawn at the start.
Applies ==
    /\ IsSome(fnArgs)
    /\ fnResult = None
    /\ UNCHANGED <<sigVars, streamVars, jsonVars, fnArgs>>

RemapFunctionCallArgs ==
    /\ Applies
    /\ fnResult' = Returned("remap_function_call_args",
                            remap_function_call_args(Unwrap(fnArgs).name, Unwrap(fnArgs).args))

RemapOaiToClaudeArgs ==
    /\ Applies
    /\ fnResult' = Returned("remap_oai_to_claude_args",
                            remap_oai_to_claude_args(Unwrap(fnArgs).name, Unwrap(fnArgs).args))

\* Request path: the client sends the arguments as the text of an object.
ConvertToolCall ==
    /\ Applies
    /\ Unwrap(fnArgs).args.kind = "object"
    /\ fnResult' =
         Returned("convert_oai_message",
                  convert_tool_call([id |-> "call_1",
                                     function |-> [name |-> Unwrap(fnArgs).name,
                                                   arguments |-> to_string(Unwrap(fnArgs).args)]]))

\* Non-stream response path: a response whose content is the one tool_use block.
TransformsToolUse ==
    /\ Applies
    /\ Unwrap(fnArgs).args.kind = "object"
    /\ fnResult' =
         Returned("transforms_json",
                  transforms_json([content |-> <<ToolUseBlock("toolu_1", Unwrap(fnArgs).name,
                                                              Unwrap(fnArgs).args, None)>>,
                                   id |-> "msg_1", model |-> "m",
                                   stop_reason |-> Some("tool_use"), usage |-> None]))

\* Stream response path: the frame of a block whose fragments gave the text.
BuildToolCallEvent ==
    /\ Applies
    /\ Unwrap(fnArgs).args.kind = "object"
    /\ fnResult' =
         Returned("build_tool_call_event",
                  build_tool_call_event(ToolCallState("toolu_1", Unwrap(fnArgs).name,
                                                      to_string(Unwrap(fnArgs).args)), 0))

RemapInit ==
    /\ SlotInit
    /\ stream = FALSE
    /\ tool_call_buffer = EmptyMap
    /\ tool_call_index = 0
    /\ web_search_buffer = EmptyMap
    /\ out = <<>>
    /\ nEvents = 0
    /\ lastEvent = NoEvent
    /\ eventLog = <<>>
    /\ response = None
    /\ result = None
    /\ fnArgs \in {Some(c) : c \in RemapCalls}
    /\ fnResult = None

RemapNext ==
    \/ RemapFunctionCallArgs
    \/ RemapOaiToClaudeArgs
    \/ ConvertToolCall
    \/ TransformsToolUse
    \/ BuildToolCallEvent

RemapSpec == RemapInit /\ [][RemapNext]_vars

-----------------------------------------------------------------------------
(* format/schema_cleaner.rs.  A schema is a serde_json Value: besides       *)
(* objects, strings and null there are arrays, booleans and numbers.  The   *)
(* text of a $ref is kept as the sequence of its parts between '/'.         *)

JArray(items) == [kind |-> "array", items |-> items]
JBool(b) == [kind |-> "bool", b |-> b]
JNumber(n) == [kind |-> "number", n |-> n]

IsObject(v) == v.kind = "object"
IsArray(v) == v.kind = "array"
IsStr(v) == v.kind = "string"

\* Value::get(key) on any value
Get(v, key) == IF IsObject(v) /\ key \in DOMAIN v.map THEN Some(v.map[key]) ELSE None

MapRemoveAll(m, keys) == [x \in (DOMAIN m) \ keys |-> m[x]]

UNSUPPORTED_KEYWORDS ==
    {"additionalProperties", "default", "$schema", "$defs", "definitions", "$ref",
     "$id", "$comment", "title", "minLength", "maxLength", "pattern", "format",
     "minItems", "maxItems", "examples", "allOf", "anyOf", "oneOf", "not", "if",
     "then", "else", "dependentSchemas", "dependentRequired",
     "unevaluatedProperties", "unevaluatedItems", "contentMediaType",
     "contentEncoding", "const"}

\* Mutant of remove_unsupported: title is kept.
remove_unsupported_keeping_title(obj) == MapRemoveAll(obj, UNSUPPORTED_KEYWORDS \ {"title"})

\* for keyword in UNSUPPORTED_KEYWORDS { obj.remove(*keyword); }
remove_unsupported(obj) == MapRemoveAll(obj, UNSUPPORTED_KEYWORDS)

IsNullName(v) == IsStr(v) /\ v.str = <<"null">>
IsNotNullName(v) == ~IsNullName(v)

\* Mutant of coerce_type_array: a single remaining type is written as anyOf too.
coerce_type_array_single_as_anyOf(obj) ==
    IF "type" \in DOMAIN obj /\ IsArray(obj["type"])
    THEN LET arr == obj["type"].items
             has_null == \E i \in 1..Len(arr) : IsNullName(arr[i])
             non_null == SelectSeq(arr, IsNotNullName)
             nullable == IF has_null THEN MapInsert(obj, "nullable", JBool(TRUE)) ELSE obj
         IN IF Len(non_null) >= 1
            THEN MapInsert(MapRemove(nullable, "type"), "anyOf",
                           JArray([i \in 1..Len(non_null) |->
                                     JObject([k \in {"type"} |-> non_null[i]])]))
            ELSE nullable
    ELSE obj

\* Handle type arrays: ["string", "null"] -> "string" with nullable: true
coerce_type_array(obj) ==
    IF "type" \in DOMAIN obj /\ IsArray(obj["type"])
    THEN LET arr == obj["type"].items
             has_null == \E i \in 1..Len(arr) : IsNullName(arr[i])
             non_null == SelectSeq(arr, IsNotNullName)
             nullable == IF has_null THEN MapInsert(obj, "nullable", JBool(TRUE)) ELSE obj
         IN IF Len(non_null) = 1 THEN MapInsert(nullable, "type", non_null[1])
            ELSE IF Len(non_null) > 1
            THEN MapInsert(MapRemove(nullable, "type"), "anyOf",
                           JArray([i \in 1..Len(non_null) |->
                                     JObject([k \in {"type"} |-> non_null[i]])]))
            ELSE nullable
    ELSE obj

RECURSIVE clean_json_schema_recursive(_)
clean_json_schema_recursive(schema) ==
    IF ~IsObject(schema) THEN schema
    ELSE LET clean(v) == clean_json_schema_recursive(v)
             each(arr) == JArray([i \in 1..Len(arr.items) |-> clean(arr.items[i])])
             typed == coerce_type_array(remove_unsupported(schema.map))
             props == IF "properties" \in DOMAIN typed /\ IsObject(typed["properties"])
                      THEN MapInsert(typed, "properties",
                                     JObject([k \in DOMAIN typed["properties"].map |->
                                                clean(typed["properties"].map[k])]))
                      ELSE typed
             items == IF "items" \in DOMAIN props
                      THEN IF IsObject(props["items"])
                           THEN MapInsert(props, "items", clean(props["items"]))
                           ELSE IF IsArray(props["items"])
                           THEN MapInsert(props, "items", each(props["items"]))
                           ELSE props
                      ELSE props
             of(m, key) == IF key \in DOMAIN m /\ IsArray(m[key])
                           THEN MapInsert(m, key, each(m[key])) ELSE m
         IN JObject(of(of(of(items, "anyOf"), "oneOf"), "allOf"))

clean_json_schema(schema) == clean_json_schema_recursive(schema)

create_placeholder_schema ==
    JObject([k \in {"type", "properties", "required"} |->
       CASE k = "type" -> JString(<<"object">>)
         [] k = "properties" ->
              JObject([r \in {"reason"} |->
                 JObject([f \in {"type", "description"} |->
                    IF f = "type" THEN JString(<<"string">>)
                    ELSE JString(<<"Reason for calling this tool">>)])])
         [] k = "required" -> JArray(<<JString(<<"reason">>)>>)])

ensure_valid_schema(schema) ==
    IF ~IsObject(schema) THEN create_placeholder_schema
    ELSE LET typed == IF "type" \notin DOMAIN schema.map
                      THEN MapInsert(schema.map, "type", JString(<<"object">>))
                      ELSE schema.map
             has_properties == /\ "properties" \in DOMAIN typed
                               /\ IsObject(typed["properties"])
                               /\ DOMAIN typed["properties"].map # {}
         IN IF typed["type"] = JString(<<"object">>) /\ ~has_properties
            THEN JObject(MapInsert(MapInsert(typed, "properties",
                                             create_placeholder_schema.map["properties"]),
                                   "required", create_placeholder_schema.map["required"]))
            ELSE JObject(typed)

\* Vec<String>::join(sep)
RECURSIVE Join(_, _)
Join(notes, sep) ==
    IF Len(notes) = 0 THEN <<>>
    ELSE IF Len(notes) = 1 THEN notes[1]
    ELSE notes[1] \o <<sep>> \o Join(Tail(notes), sep)

\* obj.get(key).and_then(|v| v.as_u64()) / as_f64(): whole numbers print without a fraction
NumberNote(obj, key, label) ==
    IF key \in DOMAIN obj /\ obj[key].kind = "number"
    THEN << <<label, ToString(obj[key].n)>> >> ELSE <<>>

StrNote(obj, key, label) ==
    IF key \in DOMAIN obj /\ IsStr(obj[key]) THEN << <<label>> \o obj[key].str >> ELSE <<>>

RECURSIVE move_constraints_recursive(_)
move_constraints_recursive(schema) ==
    IF ~IsObject(schema) THEN schema
    ELSE LET obj == schema.map
             constraint_notes ==
                 NumberNote(obj, "minLength", "Minimum length: ")
                 \o NumberNote(obj, "maxLength", "Maximum length: ")
                 \o StrNote(obj, "pattern", "Pattern: ")
                 \o NumberNote(obj, "minimum", "Minimum: ")
                 \o NumberNote(obj, "maximum", "Maximum: ")
                 \o NumberNote(obj, "minItems", "Minimum items: ")
                 \o NumberNote(obj, "maxItems", "Maximum items: ")
             existing_desc == IF "description" \in DOMAIN obj /\ IsStr(obj["description"])
                              THEN obj["description"].str ELSE <<>>
             new_desc == IF existing_desc = <<>> THEN Join(constraint_notes, ". ")
                         ELSE existing_desc \o <<". Constraints: ">>
                              \o Join(constraint_notes, ", ")
             described == IF constraint_notes # <<>>
                          THEN MapInsert(obj, "description", JString(new_desc)) ELSE obj
             props == IF "properties" \in DOMAIN described /\ IsObject(described["properties"])
                      THEN MapInsert(described, "properties",
                              JObject([k \in DOMAIN described["properties"].map |->
                                 move_constraints_recursive(described["properties"].map[k])]))
                      ELSE described
         IN JObject(IF "items" \in DOMAIN props
                    THEN MapInsert(props, "items", move_constraints_recursive(props["items"]))
                    ELSE props)

move_constraints_to_description(schema) == move_constraints_recursive(schema)

\* Merge definition into current schema: keys already present are kept
MergeDefinition(obj, definition) ==
    IF IsObject(definition)
    THEN [k \in DOMAIN obj \cup DOMAIN definition.map |->
            IF k \in DOMAIN obj THEN obj[k] ELSE definition.map[k]]
    ELSE obj

RECURSIVE expand_refs_recursive(_, _)
expand_refs_recursive(schema, definitions) ==
    IF ~IsObject(schema) THEN schema
    ELSE LET expand(v) == expand_refs_recursive(v, definitions)
             obj == schema.map
             removed == MapRemove(obj, "$ref")
             merged ==
                 IF "$ref" \in DOMAIN obj /\ IsStr(obj["$ref"])
                 THEN LET parts == obj["$ref"].str
                      IN IF Len(parts) >= 3 /\ parts[1] = "#"
                            /\ IsSome(Get(definitions, parts[Len(parts)]))
                         THEN MergeDefinition(removed,
                                              Unwrap(Get(definitions, parts[Len(parts)])))
                         ELSE removed
                 ELSE removed
             props == IF "properties" \in DOMAIN merged /\ IsObject(merged["properties"])
                      THEN MapInsert(merged, "properties",
                              JObject([k \in DOMAIN merged["properties"].map |->
                                         expand(merged["properties"].map[k])]))
                      ELSE merged
             items == IF "items" \in DOMAIN props
                      THEN MapInsert(props, "items", expand(props["items"])) ELSE props
             of(m, key) == IF key \in DOMAIN m /\ IsArray(m[key])
                           THEN MapInsert(m, key,
                                   JArray([i \in 1..Len(m[key].items) |->
                                             expand(m[key].items[i])]))
                           ELSE m
         IN JObject(of(of(of(items, "anyOf"), "oneOf"), "allOf"))

\* Mutant of expand_refs: only $defs is removed from the result.
expand_refs_keeping_definitions(schema) ==
    LET definitions == IF IsSome(Get(schema, "$defs")) THEN Unwrap(Get(schema, "$defs"))
                       ELSE IF IsSome(Get(schema, "definitions"))
                       THEN Unwrap(Get(schema, "definitions"))
                       ELSE JObject(EmptyMap)
        expanded == expand_refs_recursive(schema, definitions)
    IN IF IsObject(expanded) THEN JObject(MapRemove(expanded.map, "$defs")) ELSE expanded

expand_refs(schema) ==
    LET definitions == IF IsSome(Get(schema, "$defs")) THEN Unwrap(Get(schema, "$defs"))
                       ELSE IF IsSome(Get(schema, "definitions"))
                       THEN Unwrap(Get(schema, "definitions"))
                       ELSE JObject(EmptyMap)
        expanded == expand_refs_recursive(schema, definitions)
    IN IF IsObject(expanded)
       THEN JObject(MapRemoveAll(expanded.map, {"$defs", "definitions"}))
       ELSE expanded

\* types/oai.rs: the steps applied to the input_schema of a custom tool
convert_tool_schema(input_schema) ==
    ensure_valid_schema(clean_json_schema(move_constraints_to_description(input_schema)))

(* Schemas the functions are applied to *)
MaxDepth == 1

Obj1(k, v) == JObject([x \in {k} |-> v])
With(obj, k, v) == JObject(MapInsert(obj.map, k, v))

TypeValues ==
    {JString(<<"string">>),
     JArray(<<JString(<<"string">>), JString(<<"null">>)>>),
     JArray(<<JString(<<"string">>), JString(<<"number">>)>>)}

Typed == {JObject(EmptyMap)} \cup {Obj1("type", t) : t \in TypeValues}
Titled == Typed \cup {With(s, "title", JString(<<"t">>)) : s \in Typed}
Constrained == Titled \cup {With(s, "minLength", JNumber(1)) : s \in Titled}

LocalRef == Obj1("$ref", JString(<<"#", "$defs", "D">>))

LeafSchemas ==
    Constrained
    \cup {JString(<<"x">>), LocalRef,
          With(With(Obj1("type", JString(<<"string">>)), "description", JString(<<"d">>)),
               "minLength", JNumber(1))}

\* A definition that refers to itself is never drawn: the expansion of one
\* does not terminate.
Wraps(s) ==
    {With(Obj1("type", JString(<<"object">>)), "properties", Obj1("a", s)),
     With(Obj1("type", JString(<<"array">>)), "items", s),
     Obj1("items", JArray(<<s>>)),
     Obj1("anyOf", JArray(<<s>>)),
     With(Obj1("type", JString(<<"object">>)), "definitions", Obj1("D", s))}
    \cup (IF s \in Constrained
          THEN {With(With(Obj1("type", JString(<<"object">>)),
                          "properties", Obj1("a", LocalRef)),
                     "$defs", Obj1("D", s))}
          ELSE {})

RECURSIVE SchemasOfDepth(_)
SchemasOfDepth(d) ==
    IF d = 0 THEN LeafSchemas
    ELSE LET inner == SchemasOfDepth(d - 1)
         IN inner \cup UNION {Wraps(s) : s \in inner}

Schemas == SchemasOfDepth(MaxDepth)

CleanJsonSchema ==
    /\ Applies
    /\ fnResult' = Returned("clean_json_schema", clean_json_schema(Unwrap(fnArgs)))

EnsureValidSchema ==
    /\ Applies
    /\ fnResult' = Returned("ensure_valid_schema", ensure_valid_schema(Unwrap(fnArgs)))

MoveConstraintsToDescription ==
    /\ Applies
    /\ fnResult' = Returned("move_constraints_to_description",
                            move_constraints_to_description(Unwrap(fnArgs)))

ExpandRefs ==
    /\ Applies
    /\ fnResult' = Returned("expand_refs", expand_refs(Unwrap(fnArgs)))

ConvertToolSchema ==
    /\ Applies
    /\ fnResult' = Returned("input_schema", convert_tool_schema(Unwrap(fnArgs)))

SchemaInit ==
    /\ SlotInit
    /\ stream = FALSE
    /\ tool_call_buffer = EmptyMap
    /\ tool_call_index = 0
    /\ web_search_buffer = EmptyMap
    /\ out = <<>>
    /\ nEvents = 0
    /\ lastEvent = NoEvent
    /\ eventLog = <<>>
    /\ response = None
    /\ result = None
    /\ fnArgs \in {Some(s) : s \in Schemas}
    /\ fnResult = None

SchemaNext ==
    \/ CleanJsonSchema
    \/ EnsureValidSchema
    \/ MoveConstraintsToDescription
    \/ ExpandRefs
    \/ ConvertToolSchema

SchemaSpec == SchemaInit /\ [][SchemaNext]_vars

-----------------------------------------------------------------------------
(* types/claude.rs, format/thinking_utils.rs, format/image_converter.rs and  *)
(* middleware/claude/request.rs: the request normalizer.  A String is the    *)
(* sequence of its pieces; a signature is the sequence of its bytes.         *)

CacheControlEphemeral == [type |-> "ephemeral"]

Text(text, cache_control) ==
    [type |-> "text", text |-> text, cache_control |-> cache_control]
Image(source, cache_control) ==
    [type |-> "image", source |-> source, cache_control |-> cache_control]
ImageUrl(url) == [type |-> "image_url", url |-> url]
Document(source, cache_control) ==
    [type |-> "document", source |-> source, cache_control |-> cache_control]
ToolUse(id, name, input, signature, cache_control) ==
    [type |-> "tool_use", id |-> id, name |-> name, input |-> input,
     signature |-> signature, cache_control |-> cache_control]
ToolResult(tool_use_id, content, cache_control) ==
    [type |-> "tool_result", tool_use_id |-> tool_use_id, content |-> content,
     is_error |-> None, cache_control |-> cache_control]
Thinking(thinking, signature, cache_control) ==
    [type |-> "thinking", thinking |-> thinking, signature |-> signature,
     cache_control |-> cache_control]
SearchResult(data) == [type |-> "search_result", data |-> data]
ServerToolUse(data) == [type |-> "server_tool_use", data |-> data]
WebSearchToolResult(data) == [type |-> "web_search_tool_result", data |-> data]

\* MessageContent::Text { content } and MessageContent::Blocks { content }
TextContent(content) == [kind |-> "Text", content |-> content]
Blocks(content) == [kind |-> "Blocks", content |-> content]
NewMessage(role, content) == [role |-> role, content |-> content]

\* ContentBlock::clear_cache_control
clear_cache_control(block) ==
    IF block.type \in {"text", "image", "document", "tool_use", "tool_result", "thinking"}
    THEN [block EXCEPT !.cache_control = None]
    ELSE block

\* Message::clear_cache_control
message_clear_cache_control(msg) ==
    IF msg.content.kind = "Blocks"
    THEN [msg EXCEPT !.content =
            Blocks([i \in 1..Len(@.content) |-> clear_cache_control(@.content[i])])]
    ELSE msg

clean_cache_control_from_messages(messages) ==
    [i \in 1..Len(messages) |-> message_clear_cache_control(messages[i])]

MIN_SIGNATURE_LENGTH == 10

\* signature.as_ref().map(|s| s.len() >= MIN_SIGNATURE_LENGTH).unwrap_or(false)
valid_signature(signature) ==
    IsSome(signature) /\ Len(Unwrap(signature)) >= MIN_SIGNATURE_LENGTH

message_has_valid_thinking(message) ==
    /\ message.content.kind = "Blocks"
    /\ \E i \in 1..Len(message.content.content) :
          LET block == message.content.content[i]
          IN block.type = "thinking" /\ valid_signature(block.signature)

message_has_tool_use(message) ==
    /\ message.content.kind = "Blocks"
    /\ \E i \in 1..Len(message.content.content) :
          message.content.content[i].type = "tool_use"

\* Mutant of should_disable_thinking_due_to_history: every assistant message
\* of the history is examined, not only the most recent one.
should_disable_thinking_any_assistant(messages) ==
    \E i \in 1..Len(messages) :
        /\ messages[i].role = "assistant"
        /\ message_has_tool_use(messages[i])
        /\ ~message_has_valid_thinking(messages[i])

should_disable_thinking_due_to_history(messages) ==
    LET assistants == {i \in 1..Len(messages) : messages[i].role = "assistant"}
    IN IF assistants = {} THEN FALSE
       ELSE LET msg == messages[CHOOSE i \in assistants : \A j \in assistants : j <= i]
            IN message_has_tool_use(msg) /\ ~message_has_valid_thinking(msg)

\* Mutant of retain_thinking: a signature one byte short is kept.
retain_thinking_one_short(block) ==
    IF block.type = "thinking"
    THEN IsSome(block.signature) /\ Len(Unwrap(block.signature)) >= MIN_SIGNATURE_LENGTH - 1
    ELSE TRUE

\* the closure of content.retain in strip_invalid_thinking_blocks
retain_thinking(block) ==
    IF block.type = "thinking" THEN valid_signature(block.signature) ELSE TRUE

strip_invalid_thinking_blocks(messages) ==
    [i \in 1..Len(messages) |->
        IF messages[i].role # "assistant" THEN messages[i]
        ELSE IF messages[i].content.kind = "Blocks"
        THEN [messages[i] EXCEPT !.content =
                 Blocks(SelectSeq(@.content, retain_thinking))]
        ELSE messages[i]]

message_has_tool_result(message) ==
    /\ message.content.kind = "Blocks"
    /\ \E i \in 1..Len(message.content.content) :
          message.content.content[i].type = "tool_result"

\* content.iter().filter(|b| matches!(b, ContentBlock::ToolResult { .. })).count()
tool_result_count_of(msg) ==
    IF msg.role = "user" /\ msg.content.kind = "Blocks"
    THEN Cardinality({i \in 1..Len(msg.content.content) :
                        msg.content.content[i].type = "tool_result"})
    ELSE 0

RECURSIVE SumSeq(_)
SumSeq(s) == IF s = <<>> THEN 0 ELSE Head(s) + SumSeq(Tail(s))

\* ConversationState::default()
DefaultConversationState ==
    [in_tool_loop |-> FALSE, interrupted_tool |-> FALSE, turn_has_thinking |-> FALSE,
     tool_result_count |-> 0, last_assistant_has_tools |-> FALSE]

\* Mutant of analyze_conversation_state: tool results are counted in the
\* whole history, not only after the last assistant message.
analyze_conversation_state_counting_all(messages) ==
    LET assistants == {i \in 1..Len(messages) : messages[i].role = "assistant"}
    IN IF assistants = {} THEN DefaultConversationState
       ELSE LET idx == CHOOSE i \in assistants : \A j \in assistants : j <= i
                has_tools == message_has_tool_use(messages[idx])
                count == SumSeq([i \in 1..Len(messages) |-> tool_result_count_of(messages[i])])
            IN [in_tool_loop |-> has_tools /\ count > 0,
                interrupted_tool |-> has_tools /\ count = 0,
                turn_has_thinking |-> message_has_valid_thinking(messages[idx]),
                tool_result_count |-> count,
                last_assistant_has_tools |-> has_tools]

analyze_conversation_state(messages) ==
    LET assistants == {i \in 1..Len(messages) : messages[i].role = "assistant"}
    IN IF messages = <<>> \/ assistants = {} THEN DefaultConversationState
       ELSE LET idx == CHOOSE i \in assistants : \A j \in assistants : j <= i
                has_tools == message_has_tool_use(messages[idx])
                has_thinking == message_has_valid_thinking(messages[idx])
            IN IF idx < Len(messages)
               THEN LET after_assistant == SubSeq(messages, idx + 1, Len(messages))
                        count == SumSeq([i \in 1..Len(after_assistant) |->
                                            tool_result_count_of(after_assistant[i])])
                    IN [in_tool_loop |-> has_tools /\ count > 0,
                        interrupted_tool |-> has_tools /\ count = 0,
                        turn_has_thinking |-> has_thinking,
                        tool_result_count |-> count,
                        last_assistant_has_tools |-> has_tools]
               ELSE [DefaultConversationState EXCEPT
                        !.last_assistant_has_tools = has_tools,
                        !.turn_has_thinking = has_thinking,
                        !.interrupted_tool = has_tools]

\* Mutant of needs_thinking_recovery: an interrupted tool call alone does
\* not ask for recovery.
needs_thinking_recovery_in_loop_only(messages) ==
    LET state == analyze_conversation_state(messages)
    IN IF ~state.in_tool_loop THEN FALSE ELSE ~state.turn_has_thinking

needs_thinking_recovery(messages) ==
    LET state == analyze_conversation_state(messages)
    IN IF ~state.in_tool_loop /\ ~state.interrupted_tool THEN FALSE
       ELSE ~state.turn_has_thinking

\* str::trim: " " is the whitespace piece
RECURSIVE TrimStart(_)
TrimStart(s) == IF s # <<>> /\ Head(s) = " " THEN TrimStart(Tail(s)) ELSE s

RECURSIVE TrimEnd(_)
TrimEnd(s) ==
    IF s # <<>> /\ s[Len(s)] = " " THEN TrimEnd(SubSeq(s, 1, Len(s) - 1)) ELSE s

Trim(s) == TrimEnd(TrimStart(s))

\* the closure of the inner filter_map of sanitize_messages
sanitize_block(b) ==
    IF b.type = "text"
    THEN IF Trim(b.text) = <<>> THEN None ELSE Some(Text(Trim(b.text), None))
    ELSE Some(b)

\* the closure of the outer filter_map of sanitize_messages
sanitize_message(m) ==
    IF m.content.kind = "Text"
    THEN IF m.role = "assistant" /\ Trim(m.content.content) = <<>> THEN None
         ELSE Some(NewMessage(m.role, TextContent(Trim(m.content.content))))
    ELSE LET new_blocks == Flatten([i \in 1..Len(m.content.content) |->
                                      sanitize_block(m.content.content[i])])
         IN IF m.role = "assistant" /\ new_blocks = <<>> THEN None
            ELSE Some(NewMessage(m.role, Blocks(new_blocks)))

sanitize_messages(msgs) == Flatten([i \in 1..Len(msgs) |-> sanitize_message(msgs[i])])

\* A url is the sequence of its pieces: the scheme, then the rest split at
\* the first ';' and ','.
IndexOf(s, x) == IF \E i \in 1..Len(s) : s[i] = x
                 THEN Some(CHOOSE i \in 1..Len(s) : s[i] = x /\ \A j \in 1..(i - 1) : s[j] # x)
                 ELSE None

extract_image_from_data_uri(url) ==
    IF url = <<>> \/ Head(url) # "data:" THEN None
    ELSE LET comma == IndexOf(url, ",")
         IN IF comma = None THEN None
            ELSE LET rest == SubSeq(url, 2, Unwrap(comma) - 1)
                     base64_data == SubSeq(url, Unwrap(comma) + 1, Len(url))
                     semi == IndexOf(rest, ";")
                 IN Some([type |-> IF IsSome(semi)
                                   THEN SubSeq(rest, Unwrap(semi) + 1, Len(rest))
                                   ELSE <<"base64">>,
                          media_type |-> IF IsSome(semi)
                                         THEN SubSeq(rest, 1, Unwrap(semi) - 1) ELSE rest,
                          data |-> base64_data])

oai_image_url_to_claude(url) ==
    IF url # <<>> /\ Head(url) = "data:"
    THEN IF IsSome(extract_image_from_data_uri(url))
         THEN Some(Image(Unwrap(extract_image_from_data_uri(url)), None))
         ELSE None
    ELSE IF url # <<>> /\ Head(url) \in {"http://", "https://"} THEN Some(ImageUrl(url))
    ELSE None

process_image_block(block) ==
    IF block.type = "image_url"
    THEN UnwrapOr(oai_image_url_to_claude(block.url), block)
    ELSE block

process_image_blocks(blocks) == [i \in 1..Len(blocks) |-> process_image_block(blocks[i])]

process_images(messages) ==
    [i \in 1..Len(messages) |->
        IF messages[i].content.kind = "Blocks"
        THEN [messages[i] EXCEPT !.content = Blocks(process_image_blocks(@.content))]
        ELSE messages[i]]

\* Thinking::new
ThinkingNew(budget_tokens) == [budget_tokens |-> budget_tokens, type |-> "enabled"]

\* Effort as u64
Effort == [low |-> 256, medium |-> 256 * 8, high |-> 256 * 8 * 8]

ends_with(s, suffix) == s # <<>> /\ s[Len(s)] = suffix

RECURSIVE trim_end_matches(_, _)
trim_end_matches(s, suffix) ==
    IF ends_with(s, suffix) THEN trim_end_matches(SubSeq(s, 1, Len(s) - 1), suffix) ELSE s

\* From<OaiCreateMessageParams>: thinking of the converted body
oai_thinking(params) ==
    IF IsSome(params.thinking) THEN params.thinking
    ELSE IF IsSome(params.reasoning_effort)
    THEN Some(ThinkingNew(Effort[Unwrap(params.reasoning_effort)]))
    ELSE None

\* NormalizeRequest::from_request, from the parsed body on
normalize_request(params) ==
    LET thinking == IF params.format = "OpenAI" THEN oai_thinking(params)
                    ELSE params.thinking
        cleaned == clean_cache_control_from_messages(
                       process_images(sanitize_messages(params.messages)))
        suffixed == ends_with(params.model, "-thinking")
        model == IF suffixed THEN trim_end_matches(params.model, "-thinking")
                 ELSE params.model
        wanted == IF suffixed /\ thinking = None THEN Some(ThinkingNew(4096)) ELSE thinking
        kept == IF IsSome(wanted) /\ should_disable_thinking_due_to_history(cleaned)
                THEN None ELSE wanted
        stripped == strip_invalid_thinking_blocks(cleaned)
    IN [format |-> params.format, model |-> model, thinking |-> kept,
        messages |-> stripped,
        \* the branch that calls get_thought_signature
        recovery |-> IsSome(kept) /\ needs_thinking_recovery(stripped)]

(* Requests the normalizer is applied to *)
MaxMessages == 2

Sig(n) == [i \in 1..n |-> "s"]

NestedBlock ==
    JObject([k \in {"type", "text", "cache_control"} |->
        CASE k = "type" -> JString(<<"text">>)
          [] k = "text" -> JString(<<"a">>)
          [] k = "cache_control" -> JObject([t \in {"type"} |-> JString(<<"ephemeral">>)])])

RawData ==
    JObject([k \in {"title", "cache_control"} |->
        IF k = "title" THEN JString(<<"t">>)
        ELSE JObject([t \in {"type"} |-> JString(<<"ephemeral">>)])])

DataUrl == <<"data:", "image/png", ";", "base64", ",", "AAAA">>

RequestBlocks ==
    {Text(<<" ">>, None), Text(<<"a", " ">>, Some(CacheControlEphemeral)),
     ImageUrl(DataUrl),
     Image([type |-> <<"base64">>, media_type |-> <<"image/png">>, data |-> <<"AAAA">>],
           Some(CacheControlEphemeral)),
     Document([type |-> <<"base64">>, media_type |-> <<"application/pdf">>,
               data |-> <<"AAAA">>], Some(CacheControlEphemeral)),
     ToolUse("toolu_1", "Grep", JObject([k \in {"pattern"} |-> JString(<<"v">>)]), None,
             Some(CacheControlEphemeral)),
     ToolResult("toolu_1", JArray(<<NestedBlock>>), Some(CacheControlEphemeral)),
     Thinking(<<"t">>, None, None),
     Thinking(<<"t">>, Some(Sig(MIN_SIGNATURE_LENGTH - 1)), Some(CacheControlEphemeral)),
     Thinking(<<"t">>, Some(Sig(MIN_SIGNATURE_LENGTH)), None),
     SearchResult(RawData), ServerToolUse(RawData), WebSearchToolResult(RawData)}

AssistantContents ==
    {Blocks(q) : q \in SeqsUpTo(RequestBlocks, MaxBlocks)}
    \cup {TextContent(<<" ">>), TextContent(<<"a">>)}

UserContents ==
    {TextContent(<<"a", " ">>),
     Blocks(<<Text(<<" ">>, None)>>),
     Blocks(<<ToolResult("toolu_1", JArray(<<NestedBlock>>), Some(CacheControlEphemeral))>>),
     Blocks(<<Thinking(<<"t">>, None, None), SearchResult(RawData)>>)}

Messages ==
    {NewMessage("assistant", c) : c \in AssistantContents}
    \cup {NewMessage("user", c) : c \in UserContents}
    \cup {NewMessage("system",
                     Blocks(<<ToolResult("toolu_1", JString(<<"r">>), None)>>))}

Histories == SeqsUpTo(Messages, MaxMessages)

Params ==
    [format : {"Claude"}, model : {<<"m">>, <<"m", "-thinking">>},
     thinking : {None, Some(ThinkingNew(1024))}, reasoning_effort : {None}]
    \cup [format : {"OpenAI"}, model : {<<"m">>, <<"m", "-thinking">>},
          thinking : {None, Some(ThinkingNew(1024))}, reasoning_effort : {None, Some("low")}]

CleanCacheControlFromMessages ==
    /\ Applies
    /\ fnResult' = Returned("clean_cache_control_from_messages",
                            clean_cache_control_from_messages(Unwrap(fnArgs)))

ShouldDisableThinkingDueToHistory ==
    /\ Applies
    /\ fnResult' = Returned("should_disable_thinking_due_to_history",
                            should_disable_thinking_due_to_history(Unwrap(fnArgs)))

StripInvalidThinkingBlocks ==
    /\ Applies
    /\ fnResult' = Returned("strip_invalid_thinking_blocks",
                            strip_invalid_thinking_blocks(Unwrap(fnArgs)))

AnalyzeConversationState ==
    /\ Applies
    /\ fnResult' = Returned("analyze_conversation_state",
                            analyze_conversation_state(Unwrap(fnArgs)))

NeedsThinkingRecovery ==
    /\ Applies
    /\ fnResult' = Returned("needs_thinking_recovery",
                            needs_thinking_recovery(Unwrap(fnArgs)))

\* The request carries the messages drawn at the start; the rest of it is drawn here.
NormalizeRequest ==
    /\ Applies
    /\ \E p \in Params :
          LET params == [format |-> p.format, model |-> p.model, thinking |-> p.thinking,
                         reasoning_effort |-> p.reasoning_effort,
                         messages |-> Unwrap(fnArgs)]
          IN fnResult' = Returned("NormalizeRequest",
                                  [params |-> params, body |-> normalize_request(params)])

NormInit ==
    /\ SlotInit
    /\ stream = FALSE
    /\ tool_call_buffer = EmptyMap
    /\ tool_call_index = 0
    /\ web_search_buffer = EmptyMap
    /\ out = <<>>
    /\ nEvents = 0
    /\ lastEvent = NoEvent
    /\ eventLog = <<>>
    /\ response = None
    /\ result = None
    /\ fnArgs \in {Some(h) : h \in Histories}
    /\ fnResult = None

NormNext ==
    \/ CleanCacheControlFromMessages
    \/ ShouldDisableThinkingDueToHistory
    \/ StripInvalidThinkingBlocks
    \/ AnalyzeConversationState
    \/ NeedsThinkingRecovery
    \/ NormalizeRequest

NormSpec == NormInit /\ [][NormNext]_vars

-----------------------------------------------------------------------------
(* types/oai.rs, types/claude.rs and middleware/claude/request.rs: the two  *)
(* ingress dialects from the parsed body to the preprocessed request.       *)

\* OaiMessageContent
OaiText(text) == [kind |-> "Text", text |-> text]
OaiBlocks(blocks) == [kind |-> "Blocks", blocks |-> blocks]
OaiNull == [kind |-> "Null"]

OaiMessage(role, content, tool_call_id, tool_calls, annotations) ==
    [role |-> role, content |-> content, tool_call_id |-> tool_call_id,
     tool_calls |-> tool_calls, annotations |-> annotations]

\* From<OaiRole> for Role
role_from_oai(role) == IF role = "tool" THEN "user" ELSE role

\* ToolChoice::Simple, ToolChoice::Object and the ToolChoiceObject variants
ToolChoiceSimple(choice) == [form |-> "Simple", simple |-> choice]
ToolChoiceObject(choice) == [form |-> "Object", object |-> choice]
ChoiceAuto(disable) == [type |-> "auto", disable_parallel_tool_use |-> disable]
ChoiceAny(disable) == [type |-> "any", disable_parallel_tool_use |-> disable]
ChoiceTool(name, disable) ==
    [type |-> "tool", name |-> name, disable_parallel_tool_use |-> disable]
ChoiceNone == [type |-> "none"]

\* ToolChoice::to_object_format
to_object_format(tc) ==
    IF tc.form = "Simple"
    THEN CASE tc.simple = "auto" -> ToolChoiceObject(ChoiceAuto(None))
           [] tc.simple = "any" -> ToolChoiceObject(ChoiceAny(None))
           [] tc.simple = "none" -> ToolChoiceObject(ChoiceNone)
    ELSE tc

\* the closure of the filter_map of annotations_to_web_search_content
web_search_result_of(ann) ==
    IF Get(ann, "type") = Some(JString(<<"url_citation">>))
       /\ IsSome(Get(ann, "url_citation"))
    THEN LET citation == Unwrap(Get(ann, "url_citation"))
         IN Some(JObject([k \in {"type", "url", "title", "snippet"} |->
                CASE k = "type" -> JString(<<"web_search_result">>)
                  [] k = "url" -> UnwrapOr(Get(citation, "url"), JNull)
                  [] k = "title" -> UnwrapOr(Get(citation, "title"), JNull)
                  [] k = "snippet" -> UnwrapOr(Get(citation, "content"), JNull)]))
    ELSE None

annotations_to_web_search_content(annotations) ==
    Flatten([i \in 1..Len(annotations) |-> web_search_result_of(annotations[i])])

\* Mutant of tool_content_value: a string that is the text of an object is parsed.
tool_content_value_parsed(content) ==
    CASE content.kind = "Text" ->
           UnwrapOr(from_str(content.text), JString(content.text))
      [] content.kind = "Blocks" -> JArray(content.blocks)
      [] content.kind = "Null" -> JString(<<>>)

\* convert_oai_message, Tool role: content_value
tool_content_value(content) ==
    CASE content.kind = "Text" -> JString(content.text)
      [] content.kind = "Blocks" -> JArray(content.blocks)
      [] content.kind = "Null" -> JString(<<>>)

\* convert_oai_message, Tool role.  remap_tool_result_args changes nothing.
convert_tool_message(msg) ==
    NewMessage("user",
               Blocks(<<ToolResult(UnwrapOr(msg.tool_call_id, ""),
                                   tool_content_value(msg.content), None)>>))

\* convert_oai_message, Assistant role with tool_calls
convert_assistant_tool_calls(msg) ==
    LET tool_calls == Unwrap(msg.tool_calls)
        leading == CASE msg.content.kind = "Text" /\ msg.content.text # <<>> ->
                          <<Text(msg.content.text, None)>>
                     [] msg.content.kind = "Blocks" -> msg.content.blocks
                     [] OTHER -> <<>>
        uses == [i \in 1..Len(tool_calls) |->
                    LET b == convert_tool_call(tool_calls[i])
                    IN ToolUse(b.id, b.name, b.input, None, None)]
    IN NewMessage("assistant", Blocks(leading \o uses))

\* convert_oai_message, standard branch: the block pushed for the annotations
annotation_blocks(annotations) ==
    IF IsSome(annotations) /\ Unwrap(annotations) # <<>>
       /\ annotations_to_web_search_content(Unwrap(annotations)) # <<>>
    THEN <<ToolResult("web_search",
                      JArray(annotations_to_web_search_content(Unwrap(annotations))),
                      None)>>
    ELSE <<>>

\* convert_oai_message, standard branch
convert_standard_message(msg) ==
    LET converted == CASE msg.content.kind = "Blocks" ->
                            process_image_blocks(msg.content.blocks)
                       [] msg.content.kind = "Text" ->
                            IF msg.content.text # <<>>
                            THEN <<Text(msg.content.text, None)>> ELSE <<>>
                       [] msg.content.kind = "Null" -> <<>>
        blocks == converted \o annotation_blocks(msg.annotations)
    IN NewMessage(role_from_oai(msg.role),
                  IF blocks = <<>> THEN TextContent(<<>>) ELSE Blocks(blocks))

convert_oai_message(msg) ==
    CASE msg.role = "tool" -> convert_tool_message(msg)
      [] msg.role = "assistant" /\ IsSome(msg.tool_calls) ->
           convert_assistant_tool_calls(msg)
      [] OTHER -> convert_standard_message(msg)

\* json!(block) of a text block: cache_control is skipped when None
text_block_json(text, cache_control) ==
    LET base == [k \in {"type", "text"} |->
                    IF k = "type" THEN JString(<<"text">>) ELSE JString(text)]
    IN IF IsSome(cache_control)
       THEN JObject(MapInsert(base, "cache_control",
                JObject([t \in {"type"} |-> JString(<<Unwrap(cache_control).type>>)])))
       ELSE JObject(base)

RECURSIVE SelectMessages(_, _)
SelectMessages(msgs, system) ==
    IF msgs = <<>> THEN <<>>
    ELSE (IF (Head(msgs).role = "system") = system THEN <<Head(msgs)>> ELSE <<>>)
         \o SelectMessages(Tail(msgs), system)

\* From<OaiCreateMessageParams>: the system value built from the system messages
system_of(systems) ==
    LET blocks == Flatten([i \in 1..Len(systems) |->
                     IF systems[i].content.kind = "Text"
                     THEN <<Text(systems[i].content.content, None)>>
                     ELSE systems[i].content.content])
        texts == Flatten([i \in 1..Len(blocks) |->
                     IF blocks[i].type = "text"
                     THEN <<text_block_json(blocks[i].text, blocks[i].cache_control)>>
                     ELSE <<>>])
    IN IF texts # <<>> THEN Some(JArray(texts)) ELSE None

\* From<OaiCreateMessageParams> for CreateMessageParams
from_oai_params(params) ==
    LET converted_messages ==
            [i \in 1..Len(params.messages) |-> convert_oai_message(params.messages[i])]
    IN [system |-> system_of(SelectMessages(converted_messages, TRUE)),
        messages |-> SelectMessages(converted_messages, FALSE),
        model |-> params.model,
        thinking |-> oai_thinking(params),
        temperature |-> params.temperature,
        stream |-> params.stream,
        top_p |-> params.top_p,
        tool_choice |-> IF IsSome(params.tool_choice)
                        THEN Some(to_object_format(Unwrap(params.tool_choice)))
                        ELSE None]

\* NormalizeRequest::from_request: the body parsed in the dialect of the request
parse_body(raw) ==
    IF raw.format = "OpenAI" THEN from_oai_params(raw)
    ELSE [system |-> raw.system, messages |-> raw.messages, model |-> raw.model,
          thinking |-> raw.thinking, temperature |-> raw.temperature,
          stream |-> raw.stream, top_p |-> raw.top_p, tool_choice |-> raw.tool_choice]

\* NormalizeRequest::from_request for either dialect, from the parsed body on
from_request(format, body) ==
    LET normal == normalize_request([format |-> format, model |-> body.model,
                                     thinking |-> body.thinking,
                                     reasoning_effort |-> None,
                                     messages |-> body.messages])
    IN [format |-> format, system |-> body.system, messages |-> normal.messages,
        model |-> normal.model, thinking |-> normal.thinking,
        temperature |-> body.temperature, stream |-> body.stream,
        top_p |-> body.top_p, tool_choice |-> body.tool_choice]

Ok(value) == [ok |-> TRUE, value |-> value]
Err(error) == [ok |-> FALSE, error |-> error]

TEST_MESSAGE_CLAUDE == NewMessage("user", Blocks(<<Text(<<"Hi">>, None)>>))
TEST_MESSAGE_OAI == NewMessage("user", TextContent(<<"Hi">>))

\* Mutant of is_test_message: the stream flag is not looked at.
is_test_message_any_stream(body) ==
    body.messages = <<TEST_MESSAGE_CLAUDE>> \/ body.messages = <<TEST_MESSAGE_OAI>>

\* the test-message check of both preprocessors
is_test_message(body) ==
    /\ ~UnwrapOr(body.stream, FALSE)
    /\ \/ body.messages = <<TEST_MESSAGE_CLAUDE>>
       \/ body.messages = <<TEST_MESSAGE_OAI>>

\* ClaudeWebPreprocess::from_request, from the normalized body on
web_preprocess(body) ==
    IF is_test_message(body) THEN Err("TestMessage")
    ELSE Ok([body |-> body, stream |-> UnwrapOr(body.stream, FALSE),
             api_format |-> body.format])

\* str::contains for a text that is one piece
StrContains(s, piece) == \E i \in 1..Len(s) : s[i] = piece

PRELUDE_TEXT ==
    <<"You are an agent for ", "Claude Code", ", Anthropic's official CLI for Claude.">>

\* ClaudeCodePreprocess::from_request: has_claude_code_system
has_claude_code_system(system) ==
    IF system = None THEN FALSE
    ELSE LET v == Unwrap(system)
         IN CASE IsStr(v) -> StrContains(v.str, "Claude Code")
              [] IsArray(v) ->
                   \E i \in 1..Len(v.items) :
                       /\ IsSome(Get(v.items[i], "text"))
                       /\ IsStr(Unwrap(Get(v.items[i], "text")))
                       /\ StrContains(Unwrap(Get(v.items[i], "text")).str, "Claude Code")
              [] OTHER -> FALSE

\* Mutant of inject_prelude: a string system prompt is kept as the string.
inject_prelude_keeping_string(system, custom_system) ==
    IF has_claude_code_system(system) THEN system
    ELSE LET prelude_blk == text_block_json(UnwrapOr(custom_system, PRELUDE_TEXT), None)
         IN IF IsSome(system) /\ IsStr(Unwrap(system)) THEN system
            ELSE IF IsSome(system) /\ IsArray(Unwrap(system))
            THEN Some(JArray(<<prelude_blk>> \o Unwrap(system).items))
            ELSE Some(JArray(<<prelude_blk>>))

\* ClaudeCodePreprocess::from_request: the system value after the prelude step
inject_prelude(system, custom_system) ==
    IF has_claude_code_system(system) THEN system
    ELSE LET prelude_blk == text_block_json(UnwrapOr(custom_system, PRELUDE_TEXT), None)
         IN IF IsSome(system) /\ IsStr(Unwrap(system))
            THEN Some(JArray(<<prelude_blk, text_block_json(Unwrap(system).str, None)>>))
            ELSE IF IsSome(system) /\ IsArray(Unwrap(system))
            THEN Some(JArray(<<prelude_blk>> \o Unwrap(system).items))
            ELSE Some(JArray(<<prelude_blk>>))

RECURSIVE SelectCached(_)
SelectCached(items) ==
    IF items = <<>> THEN <<>>
    ELSE (IF IsSome(Get(Head(items), "cache_control"))
             /\ IsObject(Unwrap(Get(Head(items), "cache_control")))
          THEN <<Head(items)>> ELSE <<>>) \o SelectCached(Tail(items))

\* ClaudeCodePreprocess::from_request, from the normalized body on.  The hash
\* of the cached system blocks is kept as the blocks it is computed from.
code_preprocess(normal, custom_system) ==
    LET top_p == IF (\/ StrContains(normal.model, "opus-4-1")
                     \/ StrContains(normal.model, "sonnet-4-5")
                     \/ StrContains(normal.model, "opus-4-5"))
                    /\ IsSome(normal.temperature)
                 THEN None ELSE normal.top_p
        system == inject_prelude(normal.system, custom_system)
        body == [normal EXCEPT !.top_p = top_p, !.system = system]
    IN IF is_test_message(normal) THEN Err("TestMessage")
       ELSE IF system = None THEN Err("Empty system prompt")
       ELSE IF ~IsArray(Unwrap(system)) THEN Err("System prompt is not an array")
       ELSE LET cache_systems == SelectCached(Unwrap(system).items)
            IN Ok([body |-> body, stream |-> UnwrapOr(body.stream, FALSE),
                   api_format |-> body.format,
                   system_prompt_hash |-> IF cache_systems # <<>>
                                          THEN Some(cache_systems) ELSE None])

(* Requests the two preprocessors are applied to *)
UrlCitation ==
    JObject([k \in {"type", "url_citation"} |->
        IF k = "type" THEN JString(<<"url_citation">>)
        ELSE JObject([c \in {"url", "title"} |->
                 IF c = "url" THEN JString(<<"https://", "e.x">>) ELSE JString(<<"t">>)])])

GrepCall ==
    [id |-> "call_1",
     function |-> [name |-> "Grep",
                   arguments |-> <<LBRACE, Member("pattern", "v"), RBRACE>>]]

OaiMessages ==
    {OaiMessage("user", OaiText(<<"Hi">>), None, None, None),
     OaiMessage("user", OaiText(<<" ", "Hi">>), None, None, None),
     OaiMessage("user", OaiNull, None, None, None),
     OaiMessage("user", OaiBlocks(<<ImageUrl(DataUrl)>>), None, None, None),
     OaiMessage("tool", OaiText(<<LBRACE, Member("result", "success"), RBRACE>>),
                Some("call_1"), None, None),
     OaiMessage("tool", OaiText(<<LBRACE, Member("result", "success"), COMMA>>),
                Some("call_2"), None, None),
     OaiMessage("assistant", OaiNull, None, Some(<<GrepCall>>), None),
     OaiMessage("assistant", OaiText(<<"a">>), None, None, Some(<<UrlCitation>>)),
     OaiMessage("system", OaiText(<<"sys">>), None, None, None),
     OaiMessage("system", OaiText(<<"for ", "Claude Code">>), None, None, None)}

ClaudeMessages ==
    {NewMessage("user", TextContent(<<"Hi">>)),
     NewMessage("user", Blocks(<<Text(<<" ", "Hi">>, Some(CacheControlEphemeral))>>)),
     NewMessage("user", TextContent(<<"a">>)),
     NewMessage("assistant", TextContent(<<" ">>)),
     NewMessage("assistant",
                Blocks(<<ToolUse("toolu_1", "Grep",
                                 JObject([k \in {"pattern"} |-> JString(<<"v">>)]),
                                 None, None)>>)),
     NewMessage("user", Blocks(<<ToolResult("toolu_1", JString(<<"r">>), None)>>))}

Streams == {None, Some(FALSE), Some(TRUE)}

ToolChoices ==
    {None, Some(ToolChoiceSimple("auto")), Some(ToolChoiceSimple("none")),
     Some(ToolChoiceObject(ChoiceTool("Grep", None)))}

Systems ==
    {None, Some(JString(<<"sys">>)), Some(JString(<<"for ", "Claude Code">>)),
     Some(JArray(<<>>)),
     Some(JArray(<<text_block_json(<<"sys">>, Some(CacheControlEphemeral))>>)),
     Some(JArray(<<text_block_json(<<"for ", "Claude Code">>, None)>>)),
     Some(JNumber(1))}

Samplings ==
    {[model |-> <<"m">>, temperature |-> None, top_p |-> Some(1)],
     [model |-> <<"claude-", "opus-4-1">>, temperature |-> Some(1), top_p |-> Some(1)]}

RawRequest(format, messages, streamed, tool_choice, system, sampling) ==
    [format |-> format, messages |-> messages, stream |-> streamed,
     tool_choice |-> tool_choice, system |-> system, model |-> sampling.model,
     temperature |-> sampling.temperature, top_p |-> sampling.top_p,
     thinking |-> None, reasoning_effort |-> None]

RawRequests ==
    {RawRequest("Claude", h, s, tc, sys, sa) :
        h \in SeqsUpTo(ClaudeMessages, MaxMessages), s \in Streams,
        tc \in ToolChoices, sys \in Systems, sa \in Samplings}
    \cup {RawRequest("OpenAI", h, s, tc, None, sa) :
        h \in SeqsUpTo(OaiMessages, MaxMessages), s \in Streams,
        tc \in ToolChoices, sa \in Samplings}

CustomSystems == {None, Some(<<"custom">>)}

FromOaiParams ==
    /\ Applies
    /\ Unwrap(fnArgs).format = "OpenAI"
    /\ fnResult' = Returned("from_oai_params",
                            [params |-> Unwrap(fnArgs),
                             body |-> from_oai_params(Unwrap(fnArgs))])

FromRequest ==
    /\ Applies
    /\ \E parsed \in {parse_body(Unwrap(fnArgs))} :
          fnResult' = Returned("from_request",
                               [params |-> Unwrap(fnArgs),
                                body |-> from_request(Unwrap(fnArgs).format, parsed)])

\* body is what NormalizeRequest::from_request returned.
ClaudeWebPreprocess ==
    /\ Applies
    /\ \E parsed \in {parse_body(Unwrap(fnArgs))} :
          \E body \in {from_request(Unwrap(fnArgs).format, parsed)} :
             fnResult' = Returned("ClaudeWebPreprocess",
                                  [params |-> Unwrap(fnArgs), body |-> body,
                                   outcome |-> web_preprocess(body)])

\* custom_system is read from the configuration.
ClaudeCodePreprocess ==
    /\ Applies
    /\ \E parsed \in {parse_body(Unwrap(fnArgs))} :
          \E body \in {from_request(Unwrap(fnArgs).format, parsed)} :
             \E custom_system \in CustomSystems :
                fnResult' = Returned("ClaudeCodePreprocess",
                                     [params |-> Unwrap(fnArgs), body |-> body,
                                      custom_system |-> custom_system,
                                      outcome |-> code_preprocess(body, custom_system)])

IngressInit ==
    /\ SlotInit
    /\ stream = FALSE
    /\ tool_call_buffer = EmptyMap
    /\ tool_call_index = 0
    /\ web_search_buffer = EmptyMap
    /\ out = <<>>
    /\ nEvents = 0
    /\ lastEvent = NoEvent
    /\ eventLog = <<>>
    /\ response = None
    /\ result = None
    /\ fnArgs \in {Some(r) : r \in RawRequests}
    /\ fnResult = None

IngressNext ==
    \/ FromOaiParams
    \/ FromRequest
    \/ ClaudeWebPreprocess
    \/ ClaudeCodePreprocess

IngressSpec == IngressInit /\ [][IngressNext]_vars

-----------------------------------------------------------------------------
(* Claims about the signature slot *)

SlotLen(slot) == IF slot = None THEN 0 ELSE Len(Unwrap(slot))

\* C1: over any sequence of store / get / clear calls, the length of the value
\* in the global slot (0 when empty) never decreases in a step that is not
\* clear_thought_signature.
C1_SlotLengthMonotone ==
    [][lastCall'.op # "clear" =>
         SlotLen(GLOBAL_THOUGHT_SIG') >= SlotLen(GLOBAL_THOUGHT_SIG)]_vars

\* A store of a shorter non-empty signature has just returned and the longer
\* value is still in the slot.
C1_Witness ==
    /\ lastCall.op = "store"
    /\ lastCall.sig # <<>>
    /\ GLOBAL_THOUGHT_SIG # None
    /\ Len(lastCall.sig) < SlotLen(GLOBAL_THOUGHT_SIG)

\* C2: store_thought_signature(sig) replaces the slot value with sig iff sig is
\* non-empty and (the slot is empty or sig is strictly longer than the stored
\* value); otherwise the slot is left unchanged.
C2_StoreIffStrictlyLonger ==
    [][lastCall'.op = "store" =>
         LET sig == lastCall'.sig
             replaces == /\ sig # <<>>
                         /\ \/ GLOBAL_THOUGHT_SIG = None
                            \/ Len(sig) > Len(Unwrap(GLOBAL_THOUGHT_SIG))
         IN IF replaces
            THEN GLOBAL_THOUGHT_SIG' = Some(sig)
            ELSE GLOBAL_THOUGHT_SIG' = GLOBAL_THOUGHT_SIG]_vars

\* A store of a different signature of the same length has just been ignored.
C2_Witness ==
    /\ lastCall.op = "store"
    /\ GLOBAL_THOUGHT_SIG # None
    /\ Len(lastCall.sig) = SlotLen(GLOBAL_THOUGHT_SIG)
    /\ lastCall.sig # Unwrap(GLOBAL_THOUGHT_SIG)

AllReturned == \A w \in Workers : pc[w] = "idle"

\* C3: under any interleaving of concurrent store calls (no clear), no step
\* replaces a stored signature by one that is not strictly longer, and once
\* all calls have returned the slot holds a signature whose length is the
\* maximum length among the non-empty signatures stored.
C3_ConcurrentStoreKeepsLongest ==
    [][/\ (GLOBAL_THOUGHT_SIG # None /\ GLOBAL_THOUGHT_SIG' # GLOBAL_THOUGHT_SIG)
            => SlotLen(GLOBAL_THOUGHT_SIG') > SlotLen(GLOBAL_THOUGHT_SIG)
       /\ (AllReturned' /\ maxStored' > 0)
            => SlotLen(GLOBAL_THOUGHT_SIG') = maxStored']_vars

\* A worker holds the lock after writing while another worker waits to store a
\* shorter signature.
C3_Witness ==
    \E w1, w2 \in Workers :
        /\ pc[w1] = "drop"
        /\ pc[w2] = "lock"
        /\ GLOBAL_THOUGHT_SIG = Some(sigArg[w1])
        /\ Len(sigArg[w2]) < Len(sigArg[w1])

-----------------------------------------------------------------------------
(* Claims about the stream transducer.  eventLog holds the tool_use starts, *)
(* the input_json_deltas and the content_block_stops received, in order.    *)

IsToolFrame(frame) == "tool_calls" \in DOMAIN frame.delta
ToolFrames(frames) == SelectSeq(frames, IsToolFrame)

IsStop(e, index) == e.type = "content_block_stop" /\ e.index = index
IsToolStart(e, index) == e.type = "content_block_start" /\ e.index = index
IsFragment(e, index) == e.type = "content_block_delta" /\ e.index = index

\* The position in log of the tool_use start that is still open for index
\* (0 if there is none): the last start, with no stop for index after it.
OpenStart(log, index) ==
    LET starts == {q \in 1..Len(log) : IsToolStart(log[q], index)}
        last == CHOOSE q \in starts : \A r \in starts : r <= q
    IN IF starts = {} THEN 0
       ELSE IF \E r \in (last + 1)..Len(log) : IsStop(log[r], index) THEN 0
       ELSE last

\* The positions of the stops in log that close an open tool_use block.
ClosingStops(log) ==
    LET closes(p) == /\ log[p].type = "content_block_stop"
                     /\ OpenStart(SubSeq(log, 1, p - 1), log[p].index) > 0
        positions == {p \in 1..Len(log) : closes(p)}
        \* the k-th smallest position
        nth(k) == CHOOSE p \in positions : Cardinality({r \in positions : r <= p}) = k
    IN [k \in 1..Cardinality(positions) |-> nth(k)]

\* C4: the tool-call frames emitted by one transform_stream are numbered 0, 1,
\* 2, ... in the order in which the tool_use blocks are closed: the k-th frame
\* has index k - 1 and is the frame of the k-th closed block, whatever the
\* block indexes of the closed blocks are.
C4_ToolCallIndexCountsClosings ==
    LET frames == ToolFrames(out)
        closings == ClosingStops(eventLog)
    IN /\ Len(frames) = Len(closings)
       /\ \A k \in 1..Len(frames) :
            LET call == frames[k].delta.tool_calls[1]
                stop == eventLog[closings[k]]
                start == eventLog[OpenStart(SubSeq(eventLog, 1, closings[k] - 1),
                                            stop.index)]
            IN /\ call.index = k - 1
               /\ call.id = start.content_block.id

\* Two blocks were closed in the reverse order of their block indexes: the
\* block at index 1 got frame index 0 and the block at index 0 frame index 1.
C4_Witness ==
    /\ Len(ToolFrames(out)) = 2
    /\ Len(ClosingStops(eventLog)) = 2
    /\ eventLog[ClosingStops(eventLog)[1]].index = 1
    /\ eventLog[ClosingStops(eventLog)[2]].index = 0
    /\ ToolFrames(out)[1].delta.tool_calls[1].index = 0
    /\ ToolFrames(out)[2].delta.tool_calls[1].index = 1

\* The rename rule of the parameter remapper over a table of
\* <<tool, source key, destination key>> rows.
RenameByTable(rows, tool, value) ==
    IF value.kind # "object" THEN value
    ELSE IF \E row \in rows : row[1] = tool /\ row[2] \in DOMAIN value.map
    THEN LET row == CHOOSE r \in rows : r[1] = tool /\ r[2] \in DOMAIN value.map
             rest == MapRemove(value.map, row[2])
         IN JObject(IF row[3] \in DOMAIN rest THEN rest
                    ELSE MapInsert(rest, row[3], value.map[row[2]]))
    ELSE value

\* The renames applied to the tool calls of a response.
ResponseRenames ==
    {<<"Grep", "query", "pattern">>, <<"Glob", "query", "pattern">>,
     <<"Read", "path", "file_path">>, <<"Write", "path", "file_path">>,
     <<"Edit", "path", "file_path">>,
     <<"ListDir", "path", "directory">>, <<"LS", "path", "directory">>}

\* The whole table of the parameter remapper, the request-side row included.
TableRenames == ResponseRenames \cup {<<"web_search", "q", "query">>}

\* The concatenation, in receipt order, of the fragments logged for index
\* after position q.
FragmentsSince(log, q, index) ==
    Flatten([r \in 1..(Len(log) - q) |->
               IF IsFragment(log[q + r], index)
               THEN log[q + r].delta.partial_json ELSE <<>>])

\* A step that closes an open tool_use block emits exactly the frame of that
\* block, its arguments renamed by the rows given.
ClosingEmits(rows) ==
    LET stop == lastEvent'
        q == OpenStart(eventLog, stop.index)
    IN (stop.type = "content_block_stop" /\ nEvents' = nEvents + 1 /\ q > 0) =>
         LET block == eventLog[q].content_block
             text == FragmentsSince(eventLog, q, stop.index)
             parsed == IF IsSome(from_str(text)) THEN Unwrap(from_str(text))
                       ELSE JObject(EmptyMap)
         IN /\ Len(out') = Len(out) + 1
            /\ SubSeq(out', 1, Len(out)) = out
            /\ LET delta == out'[Len(out')].delta
               IN /\ DOMAIN delta = {"tool_calls"}
                  /\ Len(delta.tool_calls) = 1
                  /\ delta.tool_calls[1].id = block.id
                  /\ delta.tool_calls[1].type = "function"
                  /\ delta.tool_calls[1].function.name = block.name
                  /\ delta.tool_calls[1].function.arguments =
                       to_string(RenameByTable(rows, block.name, parsed))

\* C5 (as amended): when content_block_stop{index} closes an open tool_use
\* block, the one frame emitted carries the block's id and name and, as
\* arguments, the re-encoding of the parse of the concatenation of the
\* fragments received for that index since its start ({} if it does not
\* parse), renamed by the response-side rows of the remapper (Grep, Glob,
\* Read, Write, Edit, ListDir/LS; web_search arguments are left as they are);
\* fragments for other indexes never enter it.
C5_ToolCallFrameArguments == [][ClosingEmits(ResponseRenames)]_vars

\* C5 as stated: the same with every row of the remapper table, web_search
\* q -> query included.
C5_Original == [][ClosingEmits(TableRenames)]_vars

\* A Grep block was closed: its frame holds its two fragments, concatenated,
\* parsed, renamed and re-encoded.
C5_Witness ==
    /\ lastEvent.type = "content_block_stop"
    /\ out # <<>>
    /\ IsToolFrame(out[Len(out)])
    /\ out[Len(out)].seq = nEvents
    /\ out[Len(out)].delta.tool_calls[1].function.name = "Grep"
    /\ out[Len(out)].delta.tool_calls[1].function.arguments =
         <<LBRACE, Member("pattern", "v"), COMMA, Member("q", "w"), RBRACE>>

IsNoOpEvent(e) == e.type \in OtherEventTypes \/ e.type \in {"not_json", "unknown_event"}

IsDelta(e, type) == e.type = "content_block_delta" /\ e.delta.type = type

\* C6: the transducer never reorders.  A step appends at most one frame to
\* the frames already emitted, the frame is produced by the event handled in
\* that step, and a text_delta appends exactly one content frame with its
\* text, a thinking_delta exactly one reasoning_content frame.
C6_FramesFollowEvents ==
    [][/\ \/ out' = out
          \/ /\ Len(out') = Len(out) + 1
             /\ SubSeq(out', 1, Len(out)) = out
             /\ out'[Len(out')].seq = nEvents'
             /\ nEvents' = nEvents + 1
       /\ IsDelta(lastEvent', "text_delta") /\ nEvents' = nEvents + 1
            => /\ Len(out') = Len(out) + 1
               /\ out'[Len(out')].delta = [content |-> lastEvent'.delta.text]
       /\ IsDelta(lastEvent', "thinking_delta") /\ nEvents' = nEvents + 1
            => /\ Len(out') = Len(out) + 1
               /\ out'[Len(out')].delta =
                    [reasoning_content |-> lastEvent'.delta.thinking]]_vars

\* A content frame, then a reasoning_content frame, then a tool-call frame
\* have left in the order of their events, the first for an empty text.
C6_Witness ==
    /\ Len(out) = 3
    /\ out[1].delta = [content |-> <<>>]
    /\ out[2].delta = [reasoning_content |-> <<"t">>]
    /\ IsToolFrame(out[3])
    /\ out[1].seq < out[2].seq
    /\ out[2].seq < out[3].seq

\* C7: a frame that is not a known event, and every message_start,
\* message_delta, message_stop, ping and error event, emits nothing and
\* leaves tool_call_buffer, web_search_buffer and the emit counter as they
\* were; the stream goes on with the next event.
C7_OtherEventsAreNoOps ==
    [][IsNoOpEvent(lastEvent') /\ nEvents' = nEvents + 1
         => /\ out' = out
            /\ tool_call_buffer' = tool_call_buffer
            /\ web_search_buffer' = web_search_buffer
            /\ tool_call_index' = tool_call_index]_vars

\* An error event was received while a tool_use block and a search block were
\* open and a frame had been emitted.
C7_Witness ==
    /\ lastEvent.type = "error"
    /\ tool_call_buffer # EmptyMap
    /\ web_search_buffer # EmptyMap
    /\ out # <<>>

\* C8: a content_block_stop for an index without tool-call entry emits an
\* annotations frame iff web_search_buffer holds the index with a non-empty
\* citation list; the frame has one url_citation per buffered citation, in
\* order; the start of a web_search_tool_result or search_result block emits
\* nothing.
C8_AnnotationsOnStop ==
    [][/\ ( /\ lastEvent'.type = "content_block_stop"
            /\ nEvents' = nEvents + 1
            /\ lastEvent'.index \notin DOMAIN tool_call_buffer )
         => LET index == lastEvent'.index
            IN IF /\ index \in DOMAIN web_search_buffer
                  /\ web_search_buffer[index].citations # <<>>
               THEN LET citations == web_search_buffer[index].citations
                    IN /\ Len(out') = Len(out) + 1
                       /\ SubSeq(out', 1, Len(out)) = out
                       /\ DOMAIN out'[Len(out')].delta = {"annotations"}
                       /\ LET annotations == out'[Len(out')].delta.annotations
                          IN /\ Len(annotations) = Len(citations)
                             /\ \A i \in 1..Len(citations) :
                                  /\ annotations[i].type = "url_citation"
                                  /\ annotations[i].url_citation.url = citations[i].url
                                  /\ annotations[i].url_citation.title = citations[i].title
                                  /\ annotations[i].url_citation.content =
                                       citations[i].snippet
               ELSE out' = out
       /\ ( /\ lastEvent'.type = "content_block_start"
            /\ nEvents' = nEvents + 1
            /\ lastEvent'.content_block.type \in
                 {"web_search_tool_result", "search_result"} )
         => out' = out]_vars

\* The stop of a web_search_tool_result block has emitted the two citations
\* extracted at its start, the content item before the results item.
C8_Witness ==
    /\ lastEvent.type = "content_block_stop"
    /\ out # <<>>
    /\ out[Len(out)].seq = nEvents
    /\ DOMAIN out[Len(out)].delta = {"annotations"}
    /\ Len(out[Len(out)].delta.annotations) = 2
    /\ out[Len(out)].delta.annotations[1].url_citation.url = "u1"
    /\ out[Len(out)].delta.annotations[1].url_citation.content = <<"e1">>
    /\ out[Len(out)].delta.annotations[2].url_citation.url = "u2"

-----------------------------------------------------------------------------
(* Claims about the translated response *)

Message == Unwrap(result).choices[1].message

InputBlocks == Unwrap(response).content

\* The text blocks of the input, joined.
InputText ==
    Flatten([i \in 1..Len(InputBlocks) |->
               IF InputBlocks[i].type = "text" THEN InputBlocks[i].text ELSE <<>>])

InputHasToolUse == \E i \in 1..Len(InputBlocks) : InputBlocks[i].type = "tool_use"

\* Some block of the input yields a citation.
InputHasCitations ==
    \E i \in 1..Len(InputBlocks) :
        \/ /\ InputBlocks[i].type = "web_search_tool_result"
           /\ extract_citations_from_tool_result(InputBlocks[i].data) # <<>>
        \/ /\ InputBlocks[i].type = "search_result"
           /\ extract_citations_from_search_result(InputBlocks[i].data) # <<>>

IsPrefix(p, q) == Len(p) <= Len(q) /\ SubSeq(q, 1, Len(p)) = p

\* C9 (as amended): without stream, message.content of a response with
\* tool_calls is null iff the final content (the joined text followed by the
\* citation section when citations were extracted) is empty, i.e. iff there is
\* neither text nor citation; otherwise it is that string.  With stream, a
\* tool-call frame carries tool_calls only and no content at all, and the
\* content of a content frame is a string, the empty one included.
C9_NullContentOnlyWithoutTextAndCitations ==
    /\ (~stream /\ IsSome(result)) =>
         /\ "tool_calls" \in DOMAIN Message <=> InputHasToolUse
         /\ Message.content = JNull
              <=> (InputHasToolUse /\ InputText = <<>> /\ ~InputHasCitations)
         /\ Message.content # JNull =>
              /\ Message.content.kind = "string"
              /\ IsPrefix(InputText, Message.content.str)
              /\ InputHasCitations <=> Message.content.str # InputText
    /\ stream =>
         \A k \in 1..Len(out) :
            /\ IsToolFrame(out[k]) => DOMAIN out[k].delta = {"tool_calls"}
            /\ "content" \in DOMAIN out[k].delta =>
                 /\ DOMAIN out[k].delta = {"content"}
                 /\ out[k].delta.content \in StreamTexts

\* C9 as stated: on both paths a response (a frame) with tool_calls has a
\* content, which is null iff the text accumulated is empty and a string
\* otherwise.
C9_Original ==
    /\ (~stream /\ IsSome(result) /\ "tool_calls" \in DOMAIN Message) =>
         /\ Message.content = JNull <=> InputText = <<>>
         /\ Message.content # JNull => Message.content.kind = "string"
    /\ stream =>
         \A k \in 1..Len(out) :
            IsToolFrame(out[k]) =>
               /\ "content" \in DOMAIN out[k].delta
               /\ out[k].delta.content = JNull
                    <=> \A j \in 1..(k - 1) :
                          "content" \in DOMAIN out[j].delta => out[j].delta.content = <<>>

\* A response with a tool call, no text and two citations was translated: its
\* content is the citation section, not null.
C9_Witness ==
    /\ ~stream
    /\ IsSome(result)
    /\ "tool_calls" \in DOMAIN Message
    /\ InputText = <<>>
    /\ "annotations" \in DOMAIN Message
    /\ Len(Message.annotations) = 2
    /\ Message.content # JNull
    /\ Message.content.str # <<>>

\* C10: transforms_json maps stop_reason end_turn to stop, max_tokens to
\* length, stop_sequence to stop, tool_use to tool_calls, refusal to
\* content_filter and an absent stop_reason to stop, whatever the content
\* blocks of the response are.
C10_FinishReasonMapping ==
    IsSome(result) =>
        LET stop_reason == Unwrap(response).stop_reason
            mapped == [end_turn |-> "stop", max_tokens |-> "length",
                       stop_sequence |-> "stop", tool_use |-> "tool_calls",
                       refusal |-> "content_filter"]
        IN Unwrap(result).choices[1].finish_reason =
             IF stop_reason = None THEN "stop" ELSE mapped[Unwrap(stop_reason)]

\* A refusal whose content holds a tool_use block was translated to
\* content_filter, with the tool call in the message.
C10_Witness ==
    /\ IsSome(result)
    /\ Unwrap(response).stop_reason = Some("refusal")
    /\ "tool_calls" \in DOMAIN Message
    /\ Unwrap(result).choices[1].finish_reason = "content_filter"

-----------------------------------------------------------------------------
(* Claims about the parameter remapper *)

RequestRenames == {<<"web_search", "q", "query">>}

\* The table row of the tool whose source key is in m and whose destination
\* key is not.
SourceOnlyRows(rows, tool, m) ==
    {row \in rows : row[1] = tool /\ row[2] \in DOMAIN m /\ row[3] \notin DOMAIN m}

\* m with the source key of row renamed to its destination key.
Renamed(row, m) ==
    [k \in (DOMAIN m \ {row[2]}) \cup {row[3]} |-> IF k = row[3] THEN m[row[2]] ELSE m[k]]

\* The argument object a path has forwarded is the one it should.
Forwards(fn, m) ==
    CASE fn = "convert_oai_message" -> Unwrap(fnResult).value.input = JObject(m)
      [] fn = "transforms_json" ->
           Unwrap(fnResult).value.choices[1].message.tool_calls[1].function.arguments
             = to_string(JObject(m))
      [] fn = "build_tool_call_event" ->
           Unwrap(fnResult).value.delta.tool_calls[1].function.arguments
             = to_string(JObject(m))

\* On path fn the rows given are applied to arguments that hold the source
\* key and not the destination key; arguments no row applies to go unchanged.
PathRenames(fn, rows) ==
    (IsSome(fnResult) /\ Unwrap(fnResult).fn = fn) =>
        LET tool == Unwrap(fnArgs).name
            m == Unwrap(fnArgs).args.map
            hit == SourceOnlyRows(rows, tool, m)
        IN /\ \A row \in hit : Forwards(fn, Renamed(row, m))
           /\ (\A row \in rows : row[1] = tool => row[2] \notin DOMAIN m) => Forwards(fn, m)

C12_Original ==
    (/\ IsSome(fnResult)
     /\ Unwrap(fnResult).fn \in {"remap_function_call_args", "remap_oai_to_claude_args"}
     /\ Unwrap(fnArgs).args.kind = "object") =>
        LET tool == Unwrap(fnArgs).name
            m == Unwrap(fnArgs).args.map
        IN \A row \in TableRenames :
             (row[1] = tool /\ row[2] \in DOMAIN m /\ row[3] \in DOMAIN m) =>
                Unwrap(fnResult).value = JObject(MapRemove(m, row[2]))

\* C13: remapping is idempotent: for every tool name and every JSON value,
\* either remap function applied to its own result returns that result.
C13_RemapIdempotent ==
    IsSome(fnResult) =>
        LET tool == Unwrap(fnArgs).name
            once == Unwrap(fnResult).value
        IN /\ Unwrap(fnResult).fn = "remap_function_call_args"
                => remap_function_call_args(tool, once) = once
           /\ Unwrap(fnResult).fn = "remap_oai_to_claude_args"
                => remap_oai_to_claude_args(tool, once) = once

\* remap_function_call_args has renamed the source key of a Read call.
C13_Witness ==
    /\ IsSome(fnResult)
    /\ Unwrap(fnResult).fn = "remap_function_call_args"
    /\ Unwrap(fnArgs).name = "Read"
    /\ Unwrap(fnResult).value # Unwrap(fnArgs).args
    /\ "file_path" \in DOMAIN Unwrap(fnResult).value.map

-----------------------------------------------------------------------------
(* Claims about the schema cleaner *)

CallOf(fn) == IsSome(fnResult) /\ Unwrap(fnResult).fn = fn
Arg == Unwrap(fnArgs)
Value == Unwrap(fnResult).value

\* the type of this schema object is an array with several non-null entries
MultiType(schema) ==
    /\ IsSome(Get(schema, "type"))
    /\ IsArray(schema.map["type"])
    /\ Len(SelectSeq(schema.map["type"].items, IsNotNullName)) > 1

\* the subschemas the cleaner visits in a schema: the root, the values of
\* properties and items; combinators of the input are removed before the descent
RECURSIVE Visited(_)
Visited(schema) ==
    IF ~IsObject(schema) THEN {}
    ELSE {schema}
         \cup (IF IsSome(Get(schema, "properties")) /\ IsObject(schema.map["properties"])
               THEN UNION {Visited(schema.map["properties"].map[k]) :
                             k \in DOMAIN schema.map["properties"].map}
               ELSE {})
         \cup (IF IsSome(Get(schema, "items"))
               THEN IF IsArray(schema.map["items"])
                    THEN UNION {Visited(schema.map["items"].items[i]) :
                                  i \in 1..Len(schema.map["items"].items)}
                    ELSE Visited(schema.map["items"])
               ELSE {})

HasMultiType(schema) == \E s \in Visited(schema) : MultiType(s)

\* C14 (as amended): cleaning a cleaned schema changes nothing exactly when no
\* visited subschema of the input has a type array with several non-null
\* entries; where one has, the anyOf written by the first pass is removed by
\* the second.
C14_CleanIdempotentWithoutMultiType ==
    CallOf("clean_json_schema") =>
        (clean_json_schema(Value) = Value <=> ~HasMultiType(Arg))

\* C14 as stated: clean_json_schema is idempotent on every schema.
C14_Original ==
    CallOf("clean_json_schema") => clean_json_schema(Value) = Value

C14_Witness ==
    /\ CallOf("clean_json_schema")
    /\ \E s \in Visited(Arg) :
          /\ s # Arg
          /\ IsSome(Get(s, "type")) /\ IsArray(s.map["type"])
          /\ IsSome(Get(s, "title"))
    /\ ~HasMultiType(Arg)
    /\ Value # Arg
    /\ clean_json_schema(Value) = Value

\* the subschemas of a cleaned schema: the root, the values of properties,
\* items, and the elements of anyOf, oneOf and allOf
RECURSIVE Subschemas(_)
Subschemas(schema) ==
    IF ~IsObject(schema) THEN {}
    ELSE LET elements(key) ==
                 IF IsSome(Get(schema, key)) /\ IsArray(schema.map[key])
                 THEN UNION {Subschemas(schema.map[key].items[i]) :
                               i \in 1..Len(schema.map[key].items)}
                 ELSE {}
         IN {schema}
            \cup (IF IsSome(Get(schema, "properties")) /\ IsObject(schema.map["properties"])
                  THEN UNION {Subschemas(schema.map["properties"].map[k]) :
                                k \in DOMAIN schema.map["properties"].map}
                  ELSE {})
            \cup (IF IsSome(Get(schema, "items")) /\ IsObject(schema.map["items"])
                  THEN Subschemas(schema.map["items"]) ELSE {})
            \cup elements("items") \cup elements("anyOf")
            \cup elements("oneOf") \cup elements("allOf")

Unsupported(schema) == DOMAIN schema.map \cap UNSUPPORTED_KEYWORDS

\* an anyOf as the cleaner writes it for a type array: no type beside it,
\* every element an object holding one type
WrittenAnyOf(schema) ==
    /\ "type" \notin DOMAIN schema.map
    /\ IsArray(schema.map["anyOf"])
    /\ Len(schema.map["anyOf"].items) > 1
    /\ \A i \in 1..Len(schema.map["anyOf"].items) :
          LET e == schema.map["anyOf"].items[i]
          IN IsObject(e) /\ DOMAIN e.map = {"type"}

\* C15 (as amended): after clean_json_schema the only unsupported keyword a
\* subschema can contain is an anyOf the cleaner wrote for a type array with
\* several non-null entries; a schema without such a type array comes out
\* with no unsupported keyword in any subschema, and one with it keeps anyOf.
C15_OnlyWrittenAnyOfRemains ==
    CallOf("clean_json_schema") =>
        /\ \A s \in Subschemas(Value) :
              /\ Unsupported(s) \subseteq {"anyOf"}
              /\ "anyOf" \in DOMAIN s.map => WrittenAnyOf(s)
        /\ (\E s \in Subschemas(Value) : Unsupported(s) # {}) <=> HasMultiType(Arg)

\* C15 as stated: no subschema of a cleaned schema contains an unsupported
\* keyword, anyOf, oneOf and allOf included.
C15_Original ==
    CallOf("clean_json_schema") => \A s \in Subschemas(Value) : Unsupported(s) = {}

C15_Witness ==
    /\ CallOf("clean_json_schema")
    /\ \E s \in Visited(Arg) : s # Arg /\ Unsupported(s) # {} /\ ~MultiType(s)
    /\ Unsupported(Arg) # {}
    /\ \A s \in Subschemas(Value) : Unsupported(s) = {}

\* $ref occurs somewhere in the value, at any depth
RECURSIVE HasRef(_)
HasRef(v) ==
    IF IsObject(v)
    THEN "$ref" \in DOMAIN v.map \/ \E k \in DOMAIN v.map : HasRef(v.map[k])
    ELSE IF IsArray(v) THEN \E i \in 1..Len(v.items) : HasRef(v.items[i])
    ELSE FALSE

WithoutDefinitionMaps(v) ==
    IF IsObject(v) THEN JObject(MapRemoveAll(v.map, {"$defs", "definitions"})) ELSE v

\* C16 (as amended): for a schema with no $ref anywhere, expand_refs returns
\* the schema without its top-level $defs and definitions, so it returns the
\* schema itself exactly when the schema has neither of the two at the top.
C16_ExpandRefsWithoutRef ==
    CallOf("expand_refs") /\ ~HasRef(Arg) =>
        /\ Value = WithoutDefinitionMaps(Arg)
        /\ Value = Arg <=> (Get(Arg, "$defs") = None /\ Get(Arg, "definitions") = None)

\* C16 as stated: expand_refs(s) = s for every s with no $ref anywhere.
C16_Original ==
    CallOf("expand_refs") /\ ~HasRef(Arg) => Value = Arg

C16_Witness ==
    /\ CallOf("expand_refs")
    /\ ~HasRef(Arg)
    /\ \E s \in Visited(Arg) : s # Arg /\ {"title", "minLength"} \subseteq DOMAIN s.map
    /\ Value = Arg

\* C17 as stated: the input_schema of a custom tool is the result of
\* expand_refs, move_constraints_to_description, clean_json_schema and
\* ensure_valid_schema applied in that order, each once, so that a $ref to a
\* local definition is inlined before $ref and the definition maps are removed.
C17_Original ==
    CallOf("input_schema") =>
        Value = ensure_valid_schema(clean_json_schema(
                    move_constraints_to_description(expand_refs(Arg))))

-----------------------------------------------------------------------------
(* Claims about the request normalizer *)

Body == Value.body
Sent == Value.params

\* cache_control occurs as a key somewhere in a JSON value
RECURSIVE JsonHasCacheControl(_)
JsonHasCacheControl(v) ==
    IF IsObject(v)
    THEN "cache_control" \in DOMAIN v.map
         \/ \E k \in DOMAIN v.map : JsonHasCacheControl(v.map[k])
    ELSE IF IsArray(v) THEN \E i \in 1..Len(v.items) : JsonHasCacheControl(v.items[i])
    ELSE FALSE

\* the block, a block nested in the content of a tool_result, or the raw
\* fields of a search_result, server_tool_use or web_search_tool_result
\* carries cache_control
BlockHasCacheControl(b) ==
    \/ "cache_control" \in DOMAIN b /\ b.cache_control # None
    \/ b.type = "tool_result" /\ JsonHasCacheControl(b.content)
    \/ b.type \in {"search_result", "server_tool_use", "web_search_tool_result"}
       /\ JsonHasCacheControl(b.data)

BlocksOf(msg) == IF msg.content.kind = "Blocks" THEN msg.content.content ELSE <<>>

\* C18 as stated: no block in any message of the normalizer's output has a
\* cache_control field, blocks nested in tool_result.content and the raw
\* fields of search_result, server_tool_use and web_search_tool_result included.
C18_Original ==
    CallOf("NormalizeRequest") =>
        \A i \in 1..Len(Body.messages) :
            \A j \in 1..Len(BlocksOf(Body.messages[i])) :
                ~BlockHasCacheControl(BlocksOf(Body.messages[i])[j])

InvalidThinking(b) ==
    b.type = "thinking" /\ (b.signature = None \/ Len(Unwrap(b.signature)) < 10)
NotInvalidThinking(b) == ~InvalidThinking(b)

\* C19: after strip_invalid_thinking_blocks every thinking block left in an
\* assistant message has a signature of length at least 10; the other blocks,
\* the thinking blocks with such a signature, and the messages of other roles
\* are kept unchanged and in order.
C19_StripKeepsValid ==
    CallOf("strip_invalid_thinking_blocks") =>
        /\ Len(Value) = Len(Arg)
        /\ \A i \in 1..Len(Arg) :
              IF Arg[i].role = "assistant" /\ Arg[i].content.kind = "Blocks"
              THEN /\ Value[i].role = "assistant"
                   /\ Value[i].content.kind = "Blocks"
                   /\ BlocksOf(Value[i]) = SelectSeq(BlocksOf(Arg[i]), NotInvalidThinking)
                   /\ \A j \in 1..Len(BlocksOf(Value[i])) :
                         LET b == BlocksOf(Value[i])[j]
                         IN b.type = "thinking" =>
                               IsSome(b.signature) /\ Len(Unwrap(b.signature)) >= 10
              ELSE Value[i] = Arg[i]

C19_Witness ==
    /\ CallOf("strip_invalid_thinking_blocks")
    /\ \E i \in 1..Len(Arg) :
          /\ Arg[i].role = "assistant"
          /\ \E j, k \in 1..Len(BlocksOf(Arg[i])) :
                /\ InvalidThinking(BlocksOf(Arg[i])[j])
                /\ BlocksOf(Arg[i])[j].signature # None
                /\ BlocksOf(Arg[i])[k].type = "thinking"
                /\ ~InvalidThinking(BlocksOf(Arg[i])[k])
          /\ Len(BlocksOf(Value[i])) = 1
    /\ \E i \in 1..Len(Arg) :
          /\ Arg[i].role = "user"
          /\ \E j \in 1..Len(BlocksOf(Value[i])) : InvalidThinking(BlocksOf(Value[i])[j])

\* the most recent assistant message has a tool_use and no thinking block
\* with a signature of length at least 10
ToolUseWithoutThinking(messages) ==
    \E i \in 1..Len(messages) :
        /\ messages[i].role = "assistant"
        /\ \A j \in (i + 1)..Len(messages) : messages[j].role # "assistant"
        /\ \E j \in 1..Len(BlocksOf(messages[i])) : BlocksOf(messages[i])[j].type = "tool_use"
        /\ \A j \in 1..Len(BlocksOf(messages[i])) :
              LET b == BlocksOf(messages[i])[j]
              IN b.type = "thinking" => InvalidThinking(b)

\* thinking was requested: explicitly, by the -thinking suffix of the model,
\* or by reasoning_effort in the OpenAI dialect
ThinkingRequested ==
    \/ IsSome(Sent.thinking)
    \/ Sent.model[Len(Sent.model)] = "-thinking"
    \/ Sent.format = "OpenAI" /\ IsSome(Sent.reasoning_effort)

\* C20: after normalization, when the most recent assistant message has a
\* tool_use and no thinking block with a signature of length at least 10 the
\* request has no thinking setting, however thinking was requested; otherwise
\* the requested thinking setting is still present.
C20_ThinkingDisabledByHistory ==
    CallOf("NormalizeRequest") =>
        IF ToolUseWithoutThinking(Body.messages)
        THEN Body.thinking = None
        ELSE /\ IsSome(Body.thinking) <=> ThinkingRequested
             /\ IsSome(Sent.thinking) => Body.thinking = Sent.thinking

C20_Witness ==
    /\ CallOf("NormalizeRequest")
    /\ Sent.thinking = None
    /\ Sent.reasoning_effort = Some("low")
    /\ Len(Body.messages) < Len(Sent.messages)
    /\ Sent.messages[Len(Sent.messages)].role = "assistant"
    /\ ToolUseWithoutThinking(Body.messages)
    /\ Body.thinking = None

\* the index of the last assistant message, 0 when there is none
LastAssistant(messages) ==
    IF \E i \in 1..Len(messages) : messages[i].role = "assistant"
    THEN CHOOSE i \in 1..Len(messages) :
            /\ messages[i].role = "assistant"
            /\ \A j \in (i + 1)..Len(messages) : messages[j].role # "assistant"
    ELSE 0

HasToolUse(msg) == \E j \in 1..Len(BlocksOf(msg)) : BlocksOf(msg)[j].type = "tool_use"

\* a tool_result block occurs in a user message after position a
ToolResultAfter(messages, a) ==
    \E i \in (a + 1)..Len(messages) :
        /\ messages[i].role = "user"
        /\ \E j \in 1..Len(BlocksOf(messages[i])) : BlocksOf(messages[i])[j].type = "tool_result"

\* C21: with A the last assistant message, analyze_conversation_state returns
\* in_tool_loop = (A has a tool_use and a tool_result block occurs in a user
\* message after A) and interrupted_tool = (A has a tool_use and no such
\* block occurs, A being the last message included); with no assistant
\* message every field is false or 0.
C21_ConversationState ==
    CallOf("analyze_conversation_state") =>
        LET a == LastAssistant(Arg)
        IN IF a = 0
           THEN Value = [in_tool_loop |-> FALSE, interrupted_tool |-> FALSE,
                         turn_has_thinking |-> FALSE, tool_result_count |-> 0,
                         last_assistant_has_tools |-> FALSE]
           ELSE /\ Value.in_tool_loop = (HasToolUse(Arg[a]) /\ ToolResultAfter(Arg, a))
                /\ Value.interrupted_tool = (HasToolUse(Arg[a]) /\ ~ToolResultAfter(Arg, a))

C21_Witness ==
    /\ CallOf("analyze_conversation_state")
    /\ Len(Arg) = 2
    /\ Arg[1].role = "assistant" /\ HasToolUse(Arg[1])
    /\ \E j \in 1..Len(BlocksOf(Arg[1])) : BlocksOf(Arg[1])[j].type = "tool_result"
    /\ Arg[2].role = "user"
    /\ Value.in_tool_loop /\ ~Value.interrupted_tool /\ Value.tool_result_count = 1

\* C27: needs_thinking_recovery and should_disable_thinking_due_to_history
\* agree on every message list, strip_invalid_thinking_blocks changes neither
\* value, and so the normalizer never takes the recovery branch, the only
\* place where it reads the global signature slot.
C27_RecoveryUnreachable ==
    /\ CallOf("needs_thinking_recovery") =>
          /\ Value = should_disable_thinking_due_to_history(Arg)
          /\ needs_thinking_recovery(strip_invalid_thinking_blocks(Arg)) = Value
          /\ should_disable_thinking_due_to_history(strip_invalid_thinking_blocks(Arg)) = Value
    /\ CallOf("NormalizeRequest") => ~Body.recovery

C27_Witness ==
    /\ CallOf("NormalizeRequest")
    /\ IsSome(Body.thinking)
    /\ analyze_conversation_state(Body.messages).in_tool_loop
    /\ analyze_conversation_state(Body.messages).turn_has_thinking
    /\ Body.messages # Sent.messages
    /\ ~Body.recovery

EmptyAssistant(msg) ==
    /\ msg.role = "assistant"
    /\ IF msg.content.kind = "Text"
       THEN \A i \in 1..Len(msg.content.content) : msg.content.content[i] = " "
       ELSE msg.content.content = <<>>

\* C23 as stated: at the end of the normalization pipeline the forwarded
\* message list holds no assistant message whose content is whitespace-only
\* text or an empty block list.
C23_Original ==
    CallOf("NormalizeRequest") =>
        \A i \in 1..Len(Body.messages) : ~EmptyAssistant(Body.messages[i])

-----------------------------------------------------------------------------
(* Claims about the two ingress dialects *)

OpenAiCall(fn) == CallOf(fn) /\ Sent.format = "OpenAI"

RECURSIVE ToolResultsExpected(_)
ToolResultsExpected(msgs) ==
    IF msgs = <<>> THEN <<>>
    ELSE (IF Head(msgs).role = "tool" /\ Head(msgs).content.kind = "Text"
          THEN <<NewMessage("user",
                     Blocks(<<ToolResult(UnwrapOr(Head(msgs).tool_call_id, ""),
                                         JString(Head(msgs).content.text), None)>>))>>
          ELSE <<>>) \o ToolResultsExpected(Tail(msgs))

IsSingleToolResult(m) ==
    /\ m.role = "user"
    /\ m.content.kind = "Blocks"
    /\ Len(m.content.content) = 1
    /\ m.content.content[1].type = "tool_result"

RECURSIVE SingleToolResults(_)
SingleToolResults(msgs) ==
    IF msgs = <<>> THEN <<>>
    ELSE (IF IsSingleToolResult(Head(msgs)) THEN <<Head(msgs)>> ELSE <<>>)
         \o SingleToolResults(Tail(msgs))

ToolUseIds(msg) ==
    {BlocksOf(msg)[k].id : k \in {n \in 1..Len(BlocksOf(msg)) :
                                     BlocksOf(msg)[n].type = "tool_use"}}

\* every tool_result names a tool_use of an earlier message
Paired(messages) ==
    \A i \in 1..Len(messages) :
        \A k \in 1..Len(BlocksOf(messages[i])) :
            BlocksOf(messages[i])[k].type = "tool_result" =>
                \E j \in 1..(i - 1) :
                    BlocksOf(messages[i])[k].tool_use_id \in ToolUseIds(messages[j])

\* every role:tool message answers a tool call of an earlier assistant message
OaiPaired(messages) ==
    \A i \in 1..Len(messages) :
        messages[i].role = "tool" =>
            \E j \in 1..(i - 1) :
                /\ messages[j].role = "assistant"
                /\ IsSome(messages[j].tool_calls)
                /\ \E c \in 1..Len(Unwrap(messages[j].tool_calls)) :
                      Some(Unwrap(messages[j].tool_calls)[c].id) = messages[i].tool_call_id

SentPaired ==
    IF Sent.format = "OpenAI" THEN OaiPaired(Sent.messages) ELSE Paired(Sent.messages)

\* C22: in the message list the normalizer returns, each tool_result block's
\* tool_use_id is the id of a tool_use block of an earlier message, for a
\* request whose own tool results answer earlier tool calls.
C22_Original ==
    (CallOf("from_request") /\ SentPaired) => Paired(Body.messages)

\* C24: whichever dialect the request came in, the tool_choice the normalizer
\* returns is never in the simple form, and one sent in the object form is
\* returned as it was sent.
C24_Original ==
    CallOf("from_request") =>
        /\ IsSome(Body.tool_choice) => Unwrap(Body.tool_choice).form = "Object"
        /\ (IsSome(Sent.tool_choice) /\ Unwrap(Sent.tool_choice).form = "Object") =>
               Body.tool_choice = Sent.tool_choice

Outcome == Value.outcome
Failed(error) == ~Outcome.ok /\ Outcome.error = error

IsProbe(messages) ==
    /\ Len(messages) = 1
    /\ messages[1].role = "user"
    /\ \/ messages[1].content = TextContent(<<"Hi">>)
       \/ messages[1].content = Blocks(<<Text(<<"Hi">>, None)>>)

ProbeTaken == ~UnwrapOr(Sent.stream, FALSE) /\ IsProbe(Body.messages)

SystemTexts(system) ==
    IF system = None THEN {}
    ELSE IF IsStr(Unwrap(system)) THEN {Unwrap(system).str}
    ELSE IF IsArray(Unwrap(system))
    THEN {Unwrap(Get(Unwrap(system).items[i], "text")).str :
            i \in {n \in 1..Len(Unwrap(system).items) :
                      /\ IsSome(Get(Unwrap(system).items[n], "text"))
                      /\ IsStr(Unwrap(Get(Unwrap(system).items[n], "text")))}}
    ELSE {}

NamesClaudeCode(system) == \E t \in SystemTexts(system) : StrContains(t, "Claude Code")

StringNamingClaudeCode(system) ==
    IsSome(system) /\ IsStr(Unwrap(system)) /\ NamesClaudeCode(system)

PreludeBlock ==
    JObject([k \in {"type", "text"} |->
        IF k = "type" THEN JString(<<"text">>)
        ELSE JString(UnwrapOr(Value.custom_system, PRELUDE_TEXT))])

\* C30: for a request that is not the probe, the Code entry point fails exactly
\* when the incoming system prompt is a string naming "Claude Code", and then
\* with "System prompt is not an array"; otherwise the system prompt it
\* returns is a non-empty array, whose first element is the prelude block when
\* no incoming system text named "Claude Code"; it never fails with "Empty
\* system prompt".
C30_SystemPrompt ==
    (CallOf("ClaudeCodePreprocess") /\ ~ProbeTaken) =>
        /\ ~Outcome.ok <=> StringNamingClaudeCode(Body.system)
        /\ ~Outcome.ok => Failed("System prompt is not an array")
        /\ Outcome.ok =>
             LET system == Outcome.value.body.system
             IN /\ IsSome(system)
                /\ IsArray(Unwrap(system))
                /\ Unwrap(system).items # <<>>
                /\ ~NamesClaudeCode(Body.system) =>
                       Head(Unwrap(system).items) = PreludeBlock
                /\ NamesClaudeCode(Body.system) => system = Body.system

C30_Witness ==
    /\ CallOf("ClaudeCodePreprocess")
    /\ ~ProbeTaken
    /\ Sent.format = "Claude"
    /\ Sent.system = Some(JString(<<"for ", "Claude Code">>))
    /\ Failed("System prompt is not an array")

-----------------------------------------------------------------------------
(* Claims about the buffers of the stream transducer *)

Handled(type) == nEvents' = nEvents + 1 /\ lastEvent'.type = type

\* C28 as stated: once content_block_stop{index} has been handled neither
\* buffer holds an entry for index.
C28_Original ==
    lastEvent.type = "content_block_stop" =>
        /\ lastEvent.index \notin DOMAIN tool_call_buffer
        /\ lastEvent.index \notin DOMAIN web_search_buffer

\* C28: once content_block_stop{index} has been handled tool_call_buffer holds
\* no entry for index, and web_search_buffer holds one exactly when both a
\* tool_use block and a web-search block were open under index: the stop
\* closes the tool_use block and leaves the web-search entry.
C28_StopClearsIndex ==
    [][Handled("content_block_stop") =>
          /\ lastEvent'.index \notin DOMAIN tool_call_buffer'
          /\ lastEvent'.index \in DOMAIN web_search_buffer' <=>
                /\ lastEvent'.index \in DOMAIN tool_call_buffer
                /\ lastEvent'.index \in DOMAIN web_search_buffer]_vars

\* A stop closed the tool_use block of an index under which a web-search block
\* was open too: its frame was emitted and the web-search entry is still there.
C28_Witness ==
    /\ lastEvent.type = "content_block_stop"
    /\ lastEvent.index \in DOMAIN web_search_buffer
    /\ lastEvent.index \notin DOMAIN tool_call_buffer
    /\ out # <<>>
    /\ IsToolFrame(out[Len(out)])
    /\ out[Len(out)].seq = nEvents

ToolStartsLogged ==
    Cardinality({q \in 1..Len(eventLog) : eventLog[q].type = "content_block_start"})

\* C29: a tool-call frame is emitted exactly by a content_block_stop{index}
\* that finds an open tool_use entry for index, one frame per such stop, and
\* the stop closes the entry; an input_json_delta for an index with no open
\* entry changes nothing and emits nothing; the tool-call frames and the
\* blocks still open together never outnumber the tool_use starts received.
C29_FramesFollowClosings ==
    /\ [](Len(ToolFrames(out)) + Cardinality(DOMAIN tool_call_buffer)
              <= ToolStartsLogged)
    /\ [][LET closing == /\ Handled("content_block_stop")
                         /\ lastEvent'.index \in DOMAIN tool_call_buffer
          IN /\ Len(ToolFrames(out')) =
                    Len(ToolFrames(out)) + (IF closing THEN 1 ELSE 0)
             /\ closing => lastEvent'.index \notin DOMAIN tool_call_buffer'
             /\ (/\ Handled("content_block_delta")
                 /\ lastEvent'.delta.type = "input_json_delta"
                 /\ lastEvent'.index \notin DOMAIN tool_call_buffer)
                  => UNCHANGED <<tool_call_buffer, tool_call_index,
                                 web_search_buffer, out, GLOBAL_THOUGHT_SIG>>]_vars

\* Two tool_use blocks were opened; the block at index 0 was stopped twice and
\* the block at index 1 never: one frame was emitted.
C29_Witness ==
    /\ Len(eventLog) = 4
    /\ IsToolStart(eventLog[1], 0)
    /\ IsToolStart(eventLog[2], 1)
    /\ IsStop(eventLog[3], 0)
    /\ IsStop(eventLog[4], 0)
    /\ Len(ToolFrames(out)) = 1
    /\ DOMAIN tool_call_buffer = {1}

====
